---------------------------- MODULE Spec2Model ----------------------------
(***************************************************************************)
(* Block file set (info / index / data / checkpoint) of the persist/fs     *)
(* package: the writer of src/unnamed/part_001 and the reader of           *)
(* src/unnamed/part_000, over a byte-level model of the files.             *)
(*                                                                         *)
(* Bytes are naturals in 0..255, files are sequences of bytes, strings     *)
(* (keys) are sequences of bytes.  A 64-bit value that is put into or      *)
(* taken from the data frame is kept as its eight base-256 digits, most    *)
(* significant first, so that every bit pattern of the frame has a value.  *)
(***************************************************************************)
EXTENDS Integers, Sequences, FiniteSets, TLC

(***************************************************************************)
(* Bounds of the model.                                                    *)
(***************************************************************************)
MaxStart   == 1      \* block starts are 1..MaxStart (nanoseconds)
MaxOpens   == 2      \* successful writer Opens in one behaviour
MaxAppends == 2      \* Write/WriteAll calls with a non-empty payload in one behaviour
MaxFaults  == 1      \* injected I/O failures in one behaviour

Starts == 1..MaxStart

(***************************************************************************)
(* Program constants.                                                      *)
(***************************************************************************)
marker    == <<222, 173>>
markerLen == Len(marker)
idxLen    == 8
blockSize == 2

FileNames == {"info", "index", "data"}

(***************************************************************************)
(* Byte helpers.                                                           *)
(***************************************************************************)
Pow2(n) == IF n = 0 THEN 1 ELSE
           IF n = 1 THEN 2 ELSE
           IF n = 2 THEN 4 ELSE
           IF n = 3 THEN 8 ELSE
           IF n = 4 THEN 16 ELSE
           IF n = 5 THEN 32 ELSE
           IF n = 6 THEN 64 ELSE 128

\* bit k (0 = least significant) of byte b
BitOf(b, k) == (b \div Pow2(k)) % 2

\* byte b with bit k inverted
FlipByteBit(b, k) == IF BitOf(b, k) = 1 THEN b - Pow2(k) ELSE b + Pow2(k)

Min(a, b) == IF a < b THEN a ELSE b

Take(s, n) == SubSeq(s, 1, Min(n, Len(s)))
Drop(s, n) == SubSeq(s, n + 1, Len(s))

RECURSIVE Zeros(_)
Zeros(n) == IF n <= 0 THEN <<>> ELSE <<0>> \o Zeros(n - 1)

RECURSIVE SumLen(_)
SumLen(chunks) ==
    IF chunks = <<>> THEN 0 ELSE Len(Head(chunks)) + SumLen(Tail(chunks))

RECURSIVE Concat(_)
Concat(chunks) ==
    IF chunks = <<>> THEN <<>> ELSE Head(chunks) \o Concat(Tail(chunks))

(***************************************************************************)
(* endianness.PutUint64 / endianness.Uint64 on the 8-byte idx of a frame.  *)
(* U64(n) is the digit form of a small natural.                            *)
(***************************************************************************)
RECURSIVE Digits(_, _)
Digits(n, k) == IF k = 0 THEN <<>> ELSE Digits(n \div 256, k - 1) \o <<n % 256>>

U64(n) == Digits(n, idxLen)

PutUint64(v) == v

Uint64(bytes) == bytes

(***************************************************************************)
(* proto.EncodeVarint / proto.DecodeVarint (unsigned LEB128).              *)
(***************************************************************************)
RECURSIVE EncodeVarint(_)
EncodeVarint(x) ==
    IF x < 128 THEN <<x>> ELSE <<(x % 128) + 128>> \o EncodeVarint(x \div 128)

\* the loop of DecodeVarint: n bytes consumed so far, x accumulated, mult = 2^shift
RECURSIVE DecodeVarintLoop(_, _, _, _, _)
DecodeVarintLoop(buf, n, shift, mult, x) ==
    IF shift >= 64 THEN [value |-> 0, consumed |-> 0]
    ELSE IF n >= Len(buf) THEN [value |-> 0, consumed |-> 0]
    ELSE LET b  == buf[n + 1]
             x2 == x + (b % 128) * mult
         IN  IF b < 128 THEN [value |-> x2, consumed |-> n + 1]
             ELSE DecodeVarintLoop(buf, n + 1, shift + 7, mult * 128, x2)

DecodeVarint(buf) == DecodeVarintLoop(buf, 0, 0, 1, 0)

(***************************************************************************)
(* Protobuf (proto3) encoding of schema.IndexEntry and schema.IndexInfo:   *)
(* fields in field-number order, zero values omitted.                      *)
(*   IndexEntry {idx = 1, size = 2, offset = 3, key = 4 (string)}          *)
(*   IndexInfo  {start = 1, window = 2, entries = 3}                       *)
(***************************************************************************)
VarintField(num, v) == IF v = 0 THEN <<>> ELSE <<num * 8>> \o EncodeVarint(v)

BytesField(num, s) ==
    IF s = <<>> THEN <<>> ELSE <<num * 8 + 2>> \o EncodeVarint(Len(s)) \o s

MarshalEntry(e) ==
    VarintField(1, e.idx) \o VarintField(2, e.size) \o VarintField(3, e.offset)
        \o BytesField(4, e.key)

MarshalInfo(i) ==
    VarintField(1, i.start) \o VarintField(2, i.window) \o VarintField(3, i.entries)

\* proto.Unmarshal into a reset message: msg maps field number -> value,
\* bytesFields are the field numbers of wire type 2; later values of a
\* field replace earlier ones, unknown fields are skipped.
FieldFail(msg) == [ok |-> FALSE, rest |-> <<>>, msg |-> msg]

\* the value of a field of number num and wire type wire; v is the varint
\* decoded at the start of rest (the value, or the length of the bytes)
UnmarshalValue(msg, bytesFields, num, wire, rest, v) ==
    IF wire = 0 THEN
        IF v.consumed = 0 \/ num \in bytesFields THEN FieldFail(msg)
        ELSE [ok |-> TRUE, rest |-> Drop(rest, v.consumed),
              msg |-> IF num \in DOMAIN msg
                        THEN [msg EXCEPT ![num] = v.value] ELSE msg]
    ELSE IF wire = 2 THEN
        IF v.consumed = 0 \/ v.value > Len(rest) - v.consumed
             \/ (num \in DOMAIN msg /\ num \notin bytesFields)
          THEN FieldFail(msg)
        ELSE [ok |-> TRUE, rest |-> Drop(rest, v.consumed + v.value),
              msg |-> IF num \in DOMAIN msg
                        THEN [msg EXCEPT ![num] =
                                SubSeq(rest, v.consumed + 1, v.consumed + v.value)]
                        ELSE msg]
    ELSE IF wire = 1 THEN
        IF Len(rest) < 8 \/ num \in DOMAIN msg THEN FieldFail(msg)
        ELSE [ok |-> TRUE, rest |-> Drop(rest, 8), msg |-> msg]
    ELSE IF wire = 5 THEN
        IF Len(rest) < 4 \/ num \in DOMAIN msg THEN FieldFail(msg)
        ELSE [ok |-> TRUE, rest |-> Drop(rest, 4), msg |-> msg]
    ELSE FieldFail(msg)

\* a field whose tag was decoded as tag, rest being the bytes after the tag
UnmarshalTagged(msg, bytesFields, tag, rest) ==
    IF tag.consumed = 0 \/ tag.value \div 8 = 0 THEN FieldFail(msg)
    ELSE UnmarshalValue(msg, bytesFields, tag.value \div 8, tag.value % 8, rest,
                        DecodeVarint(rest))

\* one field: its tag and its value
UnmarshalAfterTag(buf, msg, bytesFields, tag) ==
    UnmarshalTagged(msg, bytesFields, tag, Drop(buf, tag.consumed))

UnmarshalField(buf, msg, bytesFields) ==
    UnmarshalAfterTag(buf, msg, bytesFields, DecodeVarint(buf))

RECURSIVE UnmarshalLoop(_, _, _)
UnmarshalLoop(buf, msg, bytesFields) ==
    IF buf = <<>> THEN [ok |-> TRUE, msg |-> msg]
    ELSE LET f == UnmarshalField(buf, msg, bytesFields) IN
         IF ~f.ok THEN [ok |-> FALSE, msg |-> msg]
         ELSE UnmarshalLoop(f.rest, f.msg, bytesFields)

EntryOf(u) ==
    [ok |-> u.ok,
     entry |-> [idx |-> u.msg[1], size |-> u.msg[2], offset |-> u.msg[3],
                key |-> u.msg[4]]]

InfoOf(u) ==
    [ok |-> u.ok,
     info |-> [start |-> u.msg[1], window |-> u.msg[2], entries |-> u.msg[3]]]

UnmarshalEntry(buf) == EntryOf(UnmarshalLoop(buf, <<0, 0, 0, <<>>>>, {4}))

UnmarshalInfo(buf) == InfoOf(UnmarshalLoop(buf, <<0, 0, 0>>, {}))

(***************************************************************************)
(* State.                                                                  *)
(*   fs    the files of every block: info, index, data (exists, bytes)     *)
(*         and the checkpoint sentinel (exists)                            *)
(*   w     the writer instance (struct writer)                             *)
(*   r     the reader instance (struct reader)                             *)
(*   gh    history: counters of the bounds and what the writer's current   *)
(*         session did                                                     *)
(*   last  the last call made and what it returned                         *)
(*   dmg   damage done to a data file from outside (SpecDamage only)       *)
(***************************************************************************)
VARIABLES fs, w, r, gh, last, dmg, os, ol, it, itl

fileVars == <<fs, w, r, gh, last, dmg>>

streamVars == <<os, ol>>

iterVars == <<it, itl>>

vars == <<fs, w, r, gh, last, dmg, os, ol, it, itl>>

NoFile  == [exists |-> FALSE, bytes |-> <<>>]
NewFile == [exists |-> TRUE, bytes |-> <<>>]
NilFd   == [st |-> "nil", blk |-> 0, off |-> 0]
NoLast  == [op |-> "none", err |-> "nil", key |-> <<>>, data |-> <<>>,
            ckpt |-> FALSE, rem |-> 0, exp |-> 0, ord |-> 0, blk |-> 0,
            readData |-> FALSE, actual |-> <<>>, expected |-> 0,
            beyond |-> FALSE]

\* NewWriter
InitWriter ==
    [start |-> 0, checkpointFilePath |-> -1,
     fd |-> [f \in FileNames |-> NilFd],
     currIdx |-> 0, currOffset |-> 0, infoBuffer |-> <<>>]

\* NewReader
InitReader ==
    [open |-> FALSE, blk |-> 0, start |-> 0, window |-> 0, entries |-> 0,
     entriesRead |-> 0, indexUnread |-> <<>>, dataPos |-> 0,
     calls |-> 0, got |-> <<>>, used |-> FALSE]

InitGhost ==
    [opens |-> 0, appends |-> 0, faults |-> 0,
     sessErr |-> FALSE, writeErr |-> 0, sessOpen |-> FALSE, sessBlk |-> 0,
     recs |-> [b \in Starts |-> <<>>],
     clean |-> [b \in Starts |-> FALSE],
     closed |-> FALSE, prior |-> FALSE]

InitFiles ==
    /\ fs = [b \in Starts |-> [info |-> NoFile, index |-> NoFile,
                               data |-> NoFile, checkpoint |-> FALSE]]
    /\ w = InitWriter
    /\ r = InitReader
    /\ gh = InitGhost
    /\ last = NoLast
    /\ dmg = [kind |-> "none", blk |-> 0, ord |-> 0]

\* no bit stream is in use while the file set is exercised
NoStream     == [rawBuffer |-> <<>>, pos |-> 0]
NoStreamCall == [op |-> "none", v |-> <<>>, n |-> 0, ops |-> 0, written |-> 0,
                 fromEmpty |-> TRUE, prev |-> NoStream]

\* no proto iterator is in use while the file set or a bit stream is exercised
NoIterator == [closed |-> TRUE]
NoIteratorCall == [op |-> "none"]

Init ==
    /\ InitFiles
    /\ os = NoStream
    /\ ol = NoStreamCall
    /\ it = NoIterator
    /\ itl = NoIteratorCall

(***************************************************************************)
(* os.File operations of the writer.  A thread s = [fs, w, err, injected,  *)
(* bad] is passed through the calls of one handler; an injected failure    *)
(* of a Write leaves a prefix of `partial` bytes in the file.              *)
(***************************************************************************)
WriteAt(bytes, off, data) ==
    IF data = <<>> THEN bytes
    ELSE IF off >= Len(bytes) THEN bytes \o Zeros(off - Len(bytes)) \o data
    ELSE Take(bytes, off) \o data \o Drop(bytes, off + Len(data))

Thread(f, wr) ==
    [fs |-> f, w |-> wr, err |-> "nil", injected |-> FALSE, bad |-> FALSE,
     ckpt |-> FALSE]

\* (*os.File).Write
FdWrite(s, name, data, inject, partial) ==
    LET fd == s.w.fd[name] IN
    IF fd.st # "open" THEN [s EXCEPT !.err = "EBADF"]
    ELSE IF inject /\ partial >= Len(data) THEN [s EXCEPT !.bad = TRUE]
    ELSE LET n == IF inject THEN partial ELSE Len(data) IN
         [s EXCEPT !.fs[fd.blk][name].bytes = WriteAt(@, fd.off, Take(data, n)),
                   !.w.fd[name].off = @ + n,
                   !.err = IF inject THEN "EIO" ELSE "nil",
                   !.injected = inject]

\* (*os.File).Truncate(0)
FdTruncate(s, name, inject) ==
    LET fd == s.w.fd[name] IN
    IF fd.st # "open" THEN [s EXCEPT !.err = "EBADF"]
    ELSE IF inject THEN [s EXCEPT !.err = "EIO", !.injected = TRUE]
    ELSE [s EXCEPT !.fs[fd.blk][name].bytes = <<>>]

\* (*os.File).Close: the descriptor is released also when close reports an error
FdClose(s, name, inject) ==
    LET fd == s.w.fd[name] IN
    IF fd.st # "open" THEN [s EXCEPT !.err = "EBADF"]
    ELSE [s EXCEPT !.w.fd[name].st = "closed",
                   !.err = IF inject THEN "EIO" ELSE "nil",
                   !.injected = inject]

\* closeFiles(fds...): closes the files in order and stops at the first error
RECURSIVE closeFiles(_, _, _, _)
closeFiles(s, names, i, failAt) ==
    IF names = <<>> THEN s
    ELSE LET s2 == FdClose(s, Head(names), i = failAt) IN
         IF s2.err # "nil" THEN s2
         ELSE closeFiles(s2, Tail(names), i + 1, failAt)

(***************************************************************************)
(* writer.Open                                                             *)
(*                                                                         *)
(* The callers: one writer works first, then one reader is opened on a     *)
(* block and the writer stays idle (an instance has one owner at a time);  *)
(* the writer is idle as well once a data file was damaged.  The writer's  *)
(* actions W... therefore ask for a reader that was never opened and for   *)
(* undamaged files.                                                        *)
(***************************************************************************)
\* openWritable: O_WRONLY|O_CREATE|O_TRUNC
openWritable(s, b, name) ==
    [s EXCEPT !.fs[b][name] = NewFile,
              !.w.fd[name] = [st |-> "open", blk |-> b, off |-> 0]]

\* openFiles(opener, fds): opens the files of `names`; a failure leaves the
\* files of `done` opened
RECURSIVE openFiles(_, _, _)
openFiles(s, b, names) ==
    IF names = {} THEN s
    ELSE LET n == CHOOSE x \in names : TRUE IN
         openFiles(openWritable(s, b, n), b, names \ {n})

Open(s, b, failKind, done) ==
    IF failKind = "mkdir" THEN [s EXCEPT !.err = "EIO", !.injected = TRUE]
    ELSE LET s1 == [s EXCEPT !.w.start = b, !.w.checkpointFilePath = b] IN
         IF failKind = "open"
           THEN [openFiles(s1, b, done) EXCEPT !.err = "EIO", !.injected = TRUE]
           ELSE openFiles(s1, b, FileNames)

WOpen(b, failKind, done) ==
    /\ ~r.used
    /\ dmg.kind = "none"
    /\ IF failKind = "none" THEN gh.opens < MaxOpens /\ done = FileNames
       ELSE /\ gh.faults < MaxFaults
            /\ done # FileNames
            /\ failKind = "mkdir" => done = {}
    /\ LET s == Open(Thread(fs, w), b, failKind, done) IN
       /\ fs' = s.fs
       /\ w' = s.w
       /\ gh' = IF failKind = "none"
                  THEN [gh EXCEPT !.opens = @ + 1, !.sessErr = FALSE,
                                  !.writeErr = 0, !.sessOpen = TRUE,
                                  !.sessBlk = b,
                                  !.recs[b] = <<>>, !.clean[b] = FALSE,
                                  !.prior = gh.closed]
                  ELSE [gh EXCEPT !.faults = @ + 1, !.sessErr = TRUE,
                                  !.clean[b] = IF done = {} THEN @ ELSE FALSE]
       /\ last' = [NoLast EXCEPT !.op = "Open", !.err = s.err, !.blk = b]
    /\ UNCHANGED <<r, dmg, os, ol, it, itl>>

(***************************************************************************)
(* writer.writeData / writer.Write / writer.WriteAll                       *)
(***************************************************************************)
\* writeData that loses the bytes written from the offset (C5)
writeDataNoOffset(s, data, inject, partial) ==
    IF Len(data) = 0 THEN (IF inject THEN [s EXCEPT !.bad = TRUE] ELSE s)
    ELSE FdWrite(s, "data", data, inject, partial)

writeData(s, data, inject, partial) ==
    IF Len(data) = 0 THEN (IF inject THEN [s EXCEPT !.bad = TRUE] ELSE s)
    ELSE LET s2 == FdWrite(s, "data", data, inject, partial) IN
         IF s2.err # "nil" \/ s2.bad THEN s2
         ELSE [s2 EXCEPT !.w.currOffset = @ + Len(data)]

\* the loop `for _, d := range data` over the chunks, chunk i being step i
RECURSIVE writeChunks(_, _, _, _, _)
writeChunks(s, chunks, i, failAt, partial) ==
    IF chunks = <<>> THEN s
    ELSE LET s2 == writeData(s, Head(chunks), i = failAt, partial) IN
         IF s2.err # "nil" \/ s2.bad THEN s2
         ELSE writeChunks(s2, Tail(chunks), i + 1, failAt, partial)

\* WriteAll without the early return on an empty payload (C7)
WriteAllNoEmptyCheck(s, key, data, failAt, partial) ==
    LET size == SumLen(data)
        entry == [idx |-> s.w.currIdx, size |-> size, key |-> key,
                  offset |-> s.w.currOffset]
        entryBytes == MarshalEntry(entry)
        varintBytes == EncodeVarint(Len(entryBytes))
        nc == Len(data)
        s1 == writeData(s, marker, failAt = 1, partial)
        s2 == writeData(s1, PutUint64(U64(s.w.currIdx)), failAt = 2, partial)
        s3 == writeChunks(s2, data, 3, failAt, partial)
        s4 == FdWrite(s3, "index", varintBytes, failAt = 3 + nc, partial)
        s5 == FdWrite(s4, "index", entryBytes, failAt = 4 + nc, partial)
    IN
    IF s1.err # "nil" \/ s1.bad THEN s1
    ELSE IF s2.err # "nil" \/ s2.bad THEN s2
    ELSE IF s3.err # "nil" \/ s3.bad THEN s3
    ELSE IF s4.err # "nil" \/ s4.bad THEN s4
    ELSE IF s5.err # "nil" \/ s5.bad THEN s5
    ELSE [s5 EXCEPT !.w.currIdx = @ + 1]

\* steps that can fail: 1 marker, 2 idx, 3.. chunks, then varint, then entry
WriteAll(s, key, data, failAt, partial) ==
    LET size == SumLen(data) IN
    IF size = 0 THEN (IF failAt # 0 THEN [s EXCEPT !.bad = TRUE] ELSE s)
    ELSE
      LET entry == [idx |-> s.w.currIdx, size |-> size, key |-> key,
                    offset |-> s.w.currOffset]
          entryBytes == MarshalEntry(entry)
          varintBytes == EncodeVarint(Len(entryBytes))
          nc == Len(data)
          s1 == writeData(s, marker, failAt = 1, partial)
          s2 == writeData(s1, PutUint64(U64(s.w.currIdx)), failAt = 2, partial)
          s3 == writeChunks(s2, data, 3, failAt, partial)
          s4 == FdWrite(s3, "index", varintBytes, failAt = 3 + nc, partial)
          s5 == FdWrite(s4, "index", entryBytes, failAt = 4 + nc, partial)
      IN
      IF s1.err # "nil" \/ s1.bad THEN s1
      ELSE IF s2.err # "nil" \/ s2.bad THEN s2
      ELSE IF s3.err # "nil" \/ s3.bad THEN s3
      ELSE IF s4.err # "nil" \/ s4.bad THEN s4
      ELSE IF s5.err # "nil" \/ s5.bad THEN s5
      ELSE [s5 EXCEPT !.w.currIdx = @ + 1]

Write(s, key, data, failAt, partial) == WriteAll(s, key, <<data>>, failAt, partial)

\* what the callers append: a key and the chunks of a payload; one chunk
\* stands for Write, any other number for WriteAll
Inputs ==
    { [key |-> <<97>>, chunks |-> <<<<1>>>>],
      [key |-> <<98>>, chunks |-> <<<<2>>, <<>>, <<3>>>>],
      [key |-> <<97>>, chunks |-> <<<<>>>>],
      [key |-> <<98>>, chunks |-> <<<<>>, <<>>>>] }

WWrite(in, failAt, partial) ==
    /\ ~r.used
    /\ dmg.kind = "none"
    /\ failAt = 0 => partial = 0
    /\ failAt # 0 => gh.faults < MaxFaults
    /\ LET s == IF Len(in.chunks) = 1
                  THEN Write(Thread(fs, w), in.key, in.chunks[1], failAt, partial)
                  ELSE WriteAll(Thread(fs, w), in.key, in.chunks, failAt, partial)
           size == SumLen(in.chunks)
           ok == s.err = "nil"
       IN
       /\ ~s.bad
       /\ failAt # 0 => s.injected
       /\ size > 0 => gh.appends < MaxAppends
       /\ fs' = s.fs
       /\ w' = s.w
       /\ gh' = [gh EXCEPT
                   !.appends = IF size > 0 THEN @ + 1 ELSE @,
                   !.faults = IF failAt # 0 THEN @ + 1 ELSE @,
                   !.sessErr = @ \/ ~ok,
                   !.writeErr = IF s.injected /\ gh.sessOpen THEN gh.sessBlk ELSE @,
                   !.recs[w.start] =
                       IF ok /\ size > 0
                         THEN Append(@, [key |-> in.key, data |-> Concat(in.chunks)])
                         ELSE @]
       /\ last' = [NoLast EXCEPT !.op = "Write", !.err = s.err, !.key = in.key,
                                 !.data = Concat(in.chunks), !.blk = w.start]
    /\ UNCHANGED <<r, dmg, os, ol, it, itl>>

(***************************************************************************)
(* writer.Close / writer.writeCheckpointFile                               *)
(* steps that can fail: 1 truncate, 2 write of the header, 3..5 close of   *)
(* info, index, data, 6 open of the checkpoint file                        *)
(***************************************************************************)
writeCheckpointFile(s, inject) ==
    IF inject THEN [s EXCEPT !.err = "EIO", !.injected = TRUE]
    ELSE [s EXCEPT !.fs[s.w.checkpointFilePath].checkpoint = TRUE, !.ckpt = TRUE]

\* Close that creates the checkpoint before it closes the files (C3)
CloseCheckpointFirst(s, failAt, partial) ==
    LET s1 == FdTruncate(s, "info", failAt = 1)
        info == [start |-> s.w.start, window |-> blockSize,
                 entries |-> s.w.currIdx]
        s2 == [s1 EXCEPT !.w.infoBuffer = @ \o MarshalInfo(info)]
        s3 == FdWrite(s2, "info", s2.w.infoBuffer, failAt = 2, partial)
        s4 == writeCheckpointFile(s3, failAt = 6)
    IN
    IF s1.err # "nil" THEN s1
    ELSE IF s3.err # "nil" \/ s3.bad THEN s3
    ELSE IF s4.err # "nil" THEN s4
    ELSE closeFiles(s4, <<"info", "index", "data">>, 3, failAt)

Close(s, failAt, partial) ==
    LET s1 == FdTruncate(s, "info", failAt = 1)
        info == [start |-> s.w.start, window |-> blockSize,
                 entries |-> s.w.currIdx]
        s2 == [s1 EXCEPT !.w.infoBuffer = @ \o MarshalInfo(info)]
        s3 == FdWrite(s2, "info", s2.w.infoBuffer, failAt = 2, partial)
        s4 == closeFiles(s3, <<"info", "index", "data">>, 3, failAt)
    IN
    IF s1.err # "nil" THEN s1
    ELSE IF s3.err # "nil" \/ s3.bad THEN s3
    ELSE IF s4.err # "nil" THEN s4
    ELSE writeCheckpointFile(s4, failAt = 6)

WClose(failAt, partial) ==
    /\ ~r.used
    /\ dmg.kind = "none"
    /\ failAt # 2 => partial = 0
    /\ failAt # 0 => gh.faults < MaxFaults
    /\ LET s == Close(Thread(fs, w), failAt, partial)
           ok == s.err = "nil"
       IN
       /\ ~s.bad
       /\ failAt # 0 => s.injected
       /\ fs' = s.fs
       /\ w' = s.w
       /\ gh' = [gh EXCEPT
                   !.faults = IF failAt # 0 THEN @ + 1 ELSE @,
                   !.sessErr = @ \/ ~ok,
                   !.sessOpen = IF ok THEN FALSE ELSE @,
                   !.clean[w.start] = IF ok THEN ~gh.sessErr ELSE @,
                   !.closed = @ \/ (ok /\ gh.sessOpen /\ ~gh.sessErr
                                      /\ Len(gh.recs[gh.sessBlk]) > 0)]
       /\ last' = [NoLast EXCEPT !.op = "Close", !.err = s.err, !.blk = w.start,
                                 !.ckpt = s.ckpt]
    /\ UNCHANGED <<r, dmg, os, ol, it, itl>>

(***************************************************************************)
(* reader.Open / reader.readInfo / reader.readIndex                        *)
(***************************************************************************)
\* The reader is handed blocks that have a checkpoint (the catalog decides
\* visibility by the checkpoint; the reader itself does not look at it), and
\* it is opened once.

\* ReadInfo(fd): the whole info file unmarshalled as one IndexInfo
ReadInfo(bytes) == UnmarshalInfo(bytes)

ROpen(b) ==
    /\ ~r.used
    /\ fs[b].checkpoint
    /\ LET found == \A f \in FileNames : fs[b][f].exists
           ri == ReadInfo(fs[b].info.bytes)
       IN
       IF ~found
         THEN /\ r' = [r EXCEPT !.used = TRUE]
              /\ last' = [NoLast EXCEPT !.op = "ROpen", !.err = "ENOENT", !.blk = b]
       ELSE IF ~ri.ok
         THEN /\ r' = [r EXCEPT !.open = FALSE, !.blk = b, !.dataPos = 0,
                                !.calls = 0, !.got = <<>>, !.used = TRUE]
              /\ last' = [NoLast EXCEPT !.op = "ROpen", !.err = "unmarshal", !.blk = b]
       ELSE /\ r' = [open |-> TRUE, blk |-> b,
                     start |-> ri.info.start, window |-> ri.info.window,
                     entries |-> ri.info.entries, entriesRead |-> 0,
                     indexUnread |-> fs[b].index.bytes, dataPos |-> 0,
                     calls |-> 0, got |-> <<>>, used |-> TRUE]
            /\ last' = [NoLast EXCEPT !.op = "ROpen", !.blk = b]
    /\ UNCHANGED <<fs, w, gh, dmg, os, ol, it, itl>>

(***************************************************************************)
(* reader.Read as a function of the reader and the bytes of the data file  *)
(***************************************************************************)
\* readFile: fd.Read(buf) at the cursor; (0, io.EOF) when nothing is left
readFile(bytes, pos, want) ==
    LET left == IF Len(bytes) > pos THEN Len(bytes) - pos ELSE 0
        n == Min(want, left)
    IN [n |-> n, err |-> IF n = 0 /\ want > 0 THEN "EOF" ELSE "nil",
        data |-> SubSeq(bytes, pos + 1, pos + n), left |-> left]

ReadResult(rd, err) ==
    [r |-> rd, err |-> err, key |-> <<>>, data |-> <<>>, readData |-> FALSE,
     rem |-> 0, exp |-> 0, expected |-> 0, actual |-> <<>>]

\* Read that does not compare the idx of the frame (C8)
ReadNoIdxCheck(rd, bytes) ==
    LET dv == DecodeVarint(rd.indexUnread)
        size == dv.value
        r1 == [rd EXCEPT !.indexUnread = Drop(@, dv.consumed)]
    IN
    IF dv.consumed < 1 THEN ReadResult(r1, "ErrReadIndexEntryZeroSize")
    ELSE IF size > Len(r1.indexUnread) THEN ReadResult(r1, "panic")
    ELSE
      LET u == UnmarshalEntry(Take(r1.indexUnread, size))
          entry == u.entry
          r2 == [r1 EXCEPT !.indexUnread = Drop(@, size)]
          expectedSize == markerLen + idxLen + entry.size
          rf == readFile(bytes, rd.dataPos, expectedSize)
          r3 == [r2 EXCEPT !.dataPos = @ + rf.n]
          res == [ReadResult(r3, "nil") EXCEPT !.readData = TRUE,
                     !.rem = rf.left, !.exp = expectedSize]
      IN
      IF ~u.ok THEN ReadResult(r1, "unmarshal")
      ELSE IF rf.err # "nil" THEN [res EXCEPT !.err = rf.err]
      ELSE IF rf.n # expectedSize THEN [res EXCEPT !.err = "ErrReadNotExpectedSize"]
      ELSE IF Take(rf.data, markerLen) # marker
        THEN [res EXCEPT !.err = "ErrReadMarkerNotFound"]
      ELSE [res EXCEPT !.r.entriesRead = @ + 1, !.key = entry.key,
                       !.data = Drop(rf.data, markerLen + idxLen)]

\* Read that counts the call before it knows that an entry is there (C10)
ReadCountsFirst(rd, bytes) ==
    LET dv == DecodeVarint(rd.indexUnread)
        size == dv.value
        r1 == [rd EXCEPT !.indexUnread = Drop(@, dv.consumed),
                         !.entriesRead = @ + 1]
    IN
    IF dv.consumed < 1 THEN ReadResult(r1, "ErrReadIndexEntryZeroSize")
    ELSE IF size > Len(r1.indexUnread) THEN ReadResult(r1, "panic")
    ELSE
      LET u == UnmarshalEntry(Take(r1.indexUnread, size))
          entry == u.entry
          r2 == [r1 EXCEPT !.indexUnread = Drop(@, size)]
          expectedSize == markerLen + idxLen + entry.size
          rf == readFile(bytes, rd.dataPos, expectedSize)
          r3 == [r2 EXCEPT !.dataPos = @ + rf.n]
          res == [ReadResult(r3, "nil") EXCEPT !.readData = TRUE,
                     !.rem = rf.left, !.exp = expectedSize]
          idx == Uint64(SubSeq(rf.data, markerLen + 1, markerLen + idxLen))
      IN
      IF ~u.ok THEN ReadResult(r1, "unmarshal")
      ELSE IF rf.err # "nil" THEN [res EXCEPT !.err = rf.err]
      ELSE IF rf.n # expectedSize THEN [res EXCEPT !.err = "ErrReadNotExpectedSize"]
      ELSE IF Take(rf.data, markerLen) # marker
        THEN [res EXCEPT !.err = "ErrReadMarkerNotFound"]
      ELSE IF idx # U64(entry.idx)
        THEN [res EXCEPT !.err = "ErrReadWrongIdx", !.expected = entry.idx,
                         !.actual = idx]
      ELSE [res EXCEPT !.key = entry.key,
                       !.data = Drop(rf.data, markerLen + idxLen)]

\* Read that compares the idx of the frame before it looks at the marker (C27)
ReadIdxFirst(rd, bytes) ==
    LET dv == DecodeVarint(rd.indexUnread)
        size == dv.value
        r1 == [rd EXCEPT !.indexUnread = Drop(@, dv.consumed)]
    IN
    IF dv.consumed < 1 THEN ReadResult(r1, "ErrReadIndexEntryZeroSize")
    ELSE IF size > Len(r1.indexUnread) THEN ReadResult(r1, "panic")
    ELSE
      LET u == UnmarshalEntry(Take(r1.indexUnread, size))
          entry == u.entry
          r2 == [r1 EXCEPT !.indexUnread = Drop(@, size)]
          expectedSize == markerLen + idxLen + entry.size
          rf == readFile(bytes, rd.dataPos, expectedSize)
          r3 == [r2 EXCEPT !.dataPos = @ + rf.n]
          res == [ReadResult(r3, "nil") EXCEPT !.readData = TRUE,
                     !.rem = rf.left, !.exp = expectedSize]
          idx == Uint64(SubSeq(rf.data, markerLen + 1, markerLen + idxLen))
      IN
      IF ~u.ok THEN ReadResult(r1, "unmarshal")
      ELSE IF rf.err # "nil" THEN [res EXCEPT !.err = rf.err]
      ELSE IF rf.n # expectedSize THEN [res EXCEPT !.err = "ErrReadNotExpectedSize"]
      ELSE IF idx # U64(entry.idx)
        THEN [res EXCEPT !.err = "ErrReadWrongIdx", !.expected = entry.idx,
                         !.actual = idx]
      ELSE IF Take(rf.data, markerLen) # marker
        THEN [res EXCEPT !.err = "ErrReadMarkerNotFound"]
      ELSE [res EXCEPT !.r.entriesRead = @ + 1, !.key = entry.key,
                       !.data = Drop(rf.data, markerLen + idxLen)]

Read(rd, bytes) ==
    LET dv == DecodeVarint(rd.indexUnread)
        size == dv.value
        r1 == [rd EXCEPT !.indexUnread = Drop(@, dv.consumed)]
    IN
    IF dv.consumed < 1 THEN ReadResult(r1, "ErrReadIndexEntryZeroSize")
    ELSE IF size > Len(r1.indexUnread) THEN ReadResult(r1, "panic")
    ELSE
      LET u == UnmarshalEntry(Take(r1.indexUnread, size))
          entry == u.entry
          r2 == [r1 EXCEPT !.indexUnread = Drop(@, size)]
          expectedSize == markerLen + idxLen + entry.size
          rf == readFile(bytes, rd.dataPos, expectedSize)
          r3 == [r2 EXCEPT !.dataPos = @ + rf.n]
          res == [ReadResult(r3, "nil") EXCEPT !.readData = TRUE,
                     !.rem = rf.left, !.exp = expectedSize]
          idx == Uint64(SubSeq(rf.data, markerLen + 1, markerLen + idxLen))
      IN
      IF ~u.ok THEN ReadResult(r1, "unmarshal")
      ELSE IF rf.err # "nil" THEN [res EXCEPT !.err = rf.err]
      ELSE IF rf.n # expectedSize THEN [res EXCEPT !.err = "ErrReadNotExpectedSize"]
      ELSE IF Take(rf.data, markerLen) # marker
        THEN [res EXCEPT !.err = "ErrReadMarkerNotFound"]
      ELSE IF idx # U64(entry.idx)
        THEN [res EXCEPT !.err = "ErrReadWrongIdx", !.expected = entry.idx,
                         !.actual = idx]
      ELSE [res EXCEPT !.r.entriesRead = @ + 1, !.key = entry.key,
                       !.data = Drop(rf.data, markerLen + idxLen)]

\* indexUnread[:size] with size past the length of the slice: beyond the
\* capacity ioutil.ReadAll left the slice panics; within it the entry is
\* unmarshaled from bytes past the end, and then Unmarshal fails or the
\* following indexUnread[size:] panics
ReadOutcomes(res) ==
    IF res.err = "panic" THEN {res, [res EXCEPT !.err = "unmarshal"]} ELSE {res}

RRead ==
    /\ r.open
    /\ r.calls < MaxAppends + 2
    /\ \E res \in ReadOutcomes(Read(r, fs[r.blk].data.bytes)) :
       /\ r' = [res.r EXCEPT !.calls = @ + 1,
                             !.got = IF res.err = "nil"
                                       THEN Append(@, [key |-> res.key,
                                                       data |-> res.data])
                                       ELSE @]
       /\ last' = [NoLast EXCEPT !.op = "Read", !.err = res.err, !.key = res.key,
                     !.data = res.data, !.blk = r.blk, !.readData = res.readData,
                     !.rem = res.rem, !.exp = res.exp, !.ord = r.calls + 1,
                     !.expected = res.expected, !.actual = res.actual,
                     !.beyond = Read(r, fs[r.blk].data.bytes).err = "panic"]
    /\ UNCHANGED <<fs, w, gh, dmg, os, ol, it, itl>>

\* reader.Close
RClose ==
    /\ r.open
    /\ r' = [r EXCEPT !.open = FALSE]
    /\ last' = [NoLast EXCEPT !.op = "RClose", !.blk = r.blk]
    /\ UNCHANGED <<fs, w, gh, dmg, os, ol, it, itl>>

\* reader.Range / Entries / EntriesRead
Range(rd) == [Start |-> rd.start, End |-> rd.start + rd.window]
Entries(rd) == rd.entries
EntriesRead(rd) == rd.entriesRead

(***************************************************************************)
(* Damage from outside to the data file of a block that was written and    *)
(* closed without error: one inverted bit in the marker or idx of a        *)
(* record, or a cut of the file.                                           *)
(***************************************************************************)
RECURSIVE FrameStart(_, _)
FrameStart(recs, ord) ==
    IF ord <= 1 THEN 0
    ELSE FrameStart(recs, ord - 1) + markerLen + idxLen + Len(recs[ord - 1].data)

FlipBit(b, ord, pos, bit) ==
    /\ dmg.kind = "none"
    /\ ~r.used
    /\ gh.clean[b]
    /\ ord \in 1..Len(gh.recs[b])
    /\ LET at == FrameStart(gh.recs[b], ord) + pos IN
       fs' = [fs EXCEPT ![b].data.bytes[at] = FlipByteBit(@, bit)]
    /\ dmg' = [kind |-> "flip", blk |-> b, ord |-> ord]
    /\ last' = [NoLast EXCEPT !.op = "FlipBit", !.blk = b]
    /\ UNCHANGED <<w, r, gh, os, ol, it, itl>>

Truncate(b, n) ==
    /\ dmg.kind = "none"
    /\ ~r.used
    /\ gh.clean[b]
    /\ n < Len(fs[b].data.bytes)
    /\ fs' = [fs EXCEPT ![b].data.bytes = Take(@, n)]
    /\ dmg' = [kind |-> "trunc", blk |-> b, ord |-> 0]
    /\ last' = [NoLast EXCEPT !.op = "Truncate", !.blk = b]
    /\ UNCHANGED <<w, r, gh, os, ol, it, itl>>

(***************************************************************************)
(* Specifications.                                                         *)
(***************************************************************************)
OpenStep == \E b \in Starts : WOpen(b, "none", FileNames)

WriteStep == \E in \in Inputs : WWrite(in, 0, 0)

CloseStep == WClose(0, 0)

FailedOpenStep ==
    \E b \in Starts, k \in {"mkdir", "open"}, done \in SUBSET FileNames :
        WOpen(b, k, done)

FailedWriteStep ==
    \E in \in Inputs, partial \in 0..1 :
        \E failAt \in 1..(4 + Len(in.chunks)) : WWrite(in, failAt, partial)

FailedCloseStep == \E failAt \in 1..6, partial \in 0..1 : WClose(failAt, partial)

ReaderOpenStep == \E b \in Starts : ROpen(b)

FlipStep ==
    \E b \in Starts, ord \in 1..MaxAppends, pos \in 1..(markerLen + idxLen),
       bit \in 0..7 : FlipBit(b, ord, pos, bit)

TruncateStep ==
    \E b \in Starts : \E n \in 0..(Len(fs[b].data.bytes) - 1) : Truncate(b, n)

\* writer and reader without I/O failures
Next ==
    \/ OpenStep
    \/ WriteStep
    \/ CloseStep
    \/ ReaderOpenStep
    \/ RRead
    \/ RClose

Spec == Init /\ [][Next]_vars

\* the writer with I/O failures
NextFault ==
    \/ OpenStep
    \/ WriteStep
    \/ CloseStep
    \/ FailedOpenStep
    \/ FailedWriteStep
    \/ FailedCloseStep

SpecFault == Init /\ [][NextFault]_vars

\* writer and reader with damage to a finished block's data file
NextDamage ==
    \/ OpenStep
    \/ WriteStep
    \/ CloseStep
    \/ ReaderOpenStep
    \/ RRead
    \/ RClose
    \/ FlipStep
    \/ TruncateStep

SpecDamage == Init /\ [][NextDamage]_vars

(***************************************************************************)
(* Helpers of the properties.                                              *)
(***************************************************************************)
EndsWith(bytes, suf) ==
    /\ Len(suf) <= Len(bytes)
    /\ SubSeq(bytes, Len(bytes) - Len(suf) + 1, Len(bytes)) = suf

\* n consecutive Reads succeed
RECURSIVE ReadN(_, _, _)
ReadN(rd, bytes, n) ==
    \/ n <= 0
    \/ LET res == Read(rd, bytes) IN
       res.err = "nil" /\ ReadN(res.r, bytes, n - 1)

\* a reader opened on the files of block b reads all info.entries entries
Complete(b) ==
    LET ri == ReadInfo(fs[b].info.bytes) IN
    /\ \A f \in FileNames : fs[b][f].exists
    /\ ri.ok
    /\ ReadN([InitReader EXCEPT !.indexUnread = fs[b].index.bytes],
             fs[b].data.bytes, ri.info.entries)

\* the index file as the list of its entries, BadEntry appended when the
\* rest does not decode
BadEntry == [idx |-> -1, size |-> -1, offset |-> -1, key |-> <<>>]

RECURSIVE ParseIndex(_)
ParseIndex(bytes) ==
    IF bytes = <<>> THEN <<>>
    ELSE LET dv == DecodeVarint(bytes)
             rest == Drop(bytes, dv.consumed)
             u == UnmarshalEntry(Take(rest, dv.value))
         IN IF dv.consumed < 1 \/ dv.value > Len(rest) \/ ~u.ok THEN <<BadEntry>>
            ELSE <<u.entry>> \o ParseIndex(Drop(rest, dv.value))

\* the block the writer's session is on, its records, the reader's block
SessRecs == gh.recs[gh.sessBlk]
ReaderRecs == gh.recs[r.blk]

(***************************************************************************)
(* C1  Round trip: a reader opened on a block that one writer wrote        *)
(* between Open and a successful Close without I/O error returns the       *)
(* appended (key, payload) pairs in order, and Entries() is their number.  *)
(***************************************************************************)
C1_RoundTrip ==
    (r.open /\ gh.clean[r.blk]) =>
        /\ r.got = Take(ReaderRecs, r.calls)
        /\ Entries(r) = Len(ReaderRecs)

(***************************************************************************)
(* C2  Checkpoint implies completeness: a checkpoint exists only if a      *)
(* reader would read all info.entries entries, and no checkpoint exists    *)
(* for the block a writer has open and has not closed.                     *)
(***************************************************************************)
C2_CheckpointComplete ==
    \A b \in Starts :
        /\ fs[b].checkpoint => Complete(b)
        /\ (gh.sessOpen /\ gh.sessBlk = b) => ~fs[b].checkpoint

(***************************************************************************)
(* C3  The checkpoint is created only by a Close that returns nil, after   *)
(* the header was written to the file of infoFd and info, index and data   *)
(* were closed; a Close in which a truncate, write, close or open failed        *)
(* returns an error; a Close that returns an error, an Open and a Write    *)
(* leave every checkpoint as it was.                                       *)
(***************************************************************************)
C3_Step ==
    /\ last'.ckpt =>
          /\ last'.op = "Close" /\ last'.err = "nil"
          /\ \A f \in FileNames : w'.fd[f].st = "closed"
          /\ EndsWith(fs'[w'.fd["info"].blk].info.bytes,
                      MarshalInfo([start |-> w'.start, window |-> blockSize,
                                   entries |-> w'.currIdx]))
          /\ fs'[w'.checkpointFilePath].checkpoint
    /\ (\E b \in Starts : fs'[b].checkpoint # fs[b].checkpoint) => last'.ckpt
    /\ (last'.op = "Close" /\ last'.err # "nil") => ~last'.ckpt
    /\ (last'.op = "Close" /\ gh'.faults > gh.faults) => last'.err # "nil"
    /\ last'.op \in {"Open", "Write"} => ~last'.ckpt

C3_CheckpointAfterClose == [][C3_Step]_vars

C3_Witness ==
    /\ last.op = "Close" /\ last.ckpt
    /\ fs[last.blk].checkpoint
    /\ gh.faults > 0

(***************************************************************************)
(* C4  After a Write/WriteAll on an open writer returned an error, no      *)
(* checkpoint exists for that block, whatever the writer does next.        *)
(***************************************************************************)
C4_WriteErrorNoCheckpoint ==
    gh.writeErr # 0 => ~fs[gh.writeErr].checkpoint

(***************************************************************************)
(* C5  Index invariant: after error-free appends on a freshly created      *)
(* writer, index entry i (0-based) has idx = i, size = payload length of   *)
(* record i, offset = sum over j < i of (markerLen + 8 + size_j), which is *)
(* where the marker of record i starts in the data file.                   *)
(***************************************************************************)
C5_IndexInvariant ==
    (gh.opens = 1 /\ ~gh.sessErr) =>
        LET index == ParseIndex(fs[gh.sessBlk].index.bytes)
            data == fs[gh.sessBlk].data.bytes
        IN
        /\ Len(index) = Len(SessRecs)
        /\ \A i \in 1..Len(index) :
              /\ index[i].idx = i - 1
              /\ index[i].size = Len(SessRecs[i].data)
              /\ index[i].offset = FrameStart(SessRecs, i)
              /\ SubSeq(data, index[i].offset + 1, index[i].offset + markerLen)
                    = marker

C5_Witness ==
    /\ gh.opens = 1 /\ ~gh.sessErr
    /\ Len(SessRecs) = 2
    /\ Len(SessRecs[1].data) = 2

(***************************************************************************)
(* C6  After a successful Close the info file is exactly one encoded       *)
(* header {start of Open, window = block size, entries = number of         *)
(* successful non-empty appends}, and a reader of the block reports that   *)
(* count and the range [start, start + window).                            *)
(***************************************************************************)
C6_InfoHeader ==
    /\ (last.op = "Close" /\ last.err = "nil") =>
          fs[last.blk].info.bytes =
              MarshalInfo([start |-> last.blk, window |-> blockSize,
                           entries |-> Len(gh.recs[last.blk])])
    /\ (r.open /\ gh.clean[r.blk]) =>
          /\ Entries(r) = Len(ReaderRecs)
          /\ Range(r) = [Start |-> r.blk, End |-> r.blk + blockSize]

(***************************************************************************)
(* C7  A Write or WriteAll whose payload is empty returns nil and changes  *)
(* no file, nor the record index, nor the data offset.                     *)
(***************************************************************************)
C7_Step ==
    (last'.op = "Write" /\ last'.data = <<>>) =>
        /\ last'.err = "nil"
        /\ fs' = fs
        /\ w' = w

C7_EmptyWriteNoop == [][C7_Step]_vars

C7_Witness ==
    /\ last.op = "Write" /\ last.data = <<>> /\ last.err = "nil"
    /\ gh.sessOpen
    /\ w.currIdx > 0

(***************************************************************************)
(* C8  Framing integrity: with one bit inverted in the marker or the idx   *)
(* of a record of a correctly written block, the Read of that record       *)
(* fails with MarkerNotFound or WrongIdx.                                  *)
(***************************************************************************)
C8_FramingIntegrity ==
    (last.op = "Read" /\ dmg.kind = "flip" /\ last.blk = dmg.blk
        /\ last.ord = dmg.ord) =>
        last.err \in {"ErrReadMarkerNotFound", "ErrReadWrongIdx"}

C8_Witness ==
    /\ last.op = "Read" /\ dmg.kind = "flip" /\ last.blk = dmg.blk
    /\ last.ord = dmg.ord /\ dmg.ord = 2
    /\ last.err = "ErrReadWrongIdx"

(***************************************************************************)
(* C9  Short read: a Read that finds fewer than markerLen + 8 + size       *)
(* bytes left at the cursor of the data file, zero included, fails with    *)
(* ErrReadNotExpectedSize.                                                 *)
(***************************************************************************)
C9_ShortRead ==
    (last.op = "Read" /\ last.readData /\ last.rem < last.exp) =>
        last.err = "ErrReadNotExpectedSize"

(***************************************************************************)
(* C10  On a finalized block with n entries the first n Reads succeed,     *)
(* EntriesRead() is the number of Reads that returned an entry, and every  *)
(* later Read returns ErrReadIndexEntryZeroSize, does not read the data    *)
(* file and leaves EntriesRead() at n.                                     *)
(***************************************************************************)
C10_ReadsThenZeroSize ==
    (r.open /\ gh.clean[r.blk]) =>
        LET n == Len(ReaderRecs) IN
        /\ EntriesRead(r) = Min(r.calls, n)
        /\ EntriesRead(r) = Len(r.got)
        /\ r.dataPos = FrameStart(ReaderRecs, Min(r.calls, n) + 1)
        /\ (last.op = "Read" /\ last.ord <= n) => last.err = "nil"
        /\ (last.op = "Read" /\ last.ord > n) =>
              /\ last.err = "ErrReadIndexEntryZeroSize"
              /\ ~last.readData

C10_Witness ==
    /\ r.open /\ gh.clean[r.blk]
    /\ Len(ReaderRecs) = 2
    /\ last.op = "Read" /\ last.ord = 3
    /\ last.err = "ErrReadIndexEntryZeroSize"
    /\ EntriesRead(r) = 2

(***************************************************************************)
(* ostream of src/encoding/tsz/ostream.go: a byte buffer and pos, the      *)
(* number of bits used in the last byte.  A byte is a natural in 0..255.   *)
(* A uint64 is kept as its 64 bits, least significant first, so that       *)
(* byte(v), v >> 8, v & 1 and v >> 1 are computed on the bit pattern.      *)
(***************************************************************************)
MaxStreamOps == 2      \* calls made on one stream in one behaviour

ByteInputs     == {0, 1, 90, 128, 165, 255}
BytesInputs    == {<<>>, <<165>>, <<255, 1>>}
InitialBuffers == {<<>>, <<165>>}
NumBitsInputs  == 0..65

AllOnes64 == [k \in 1..64 |-> 1]
Mixed64   == [k \in 1..64 |-> IF k % 3 = 1 \/ k % 7 = 0 THEN 1 ELSE 0]
Uint64Inputs == {AllOnes64, Mixed64}

\* a | b on bytes
ByteOr(a, b) ==
    LET either(k) == IF BitOf(a, k) = 1 \/ BitOf(b, k) = 1 THEN Pow2(k) ELSE 0
    IN  either(0) + either(1) + either(2) + either(3)
        + either(4) + either(5) + either(6) + either(7)

\* v << k on a byte (the bits shifted out are lost)
ByteShl(v, k) == (v * Pow2(k)) % 256

\* v >> k on a byte
ByteShr(v, k) == v \div Pow2(k)

\* byte(v) of a uint64
ByteOf64(v) ==
    v[1] + 2 * v[2] + 4 * v[3] + 8 * v[4]
    + 16 * v[5] + 32 * v[6] + 64 * v[7] + 128 * v[8]

\* v >> k of a uint64
Shr64(v, k) == SubSeq(v, k + 1, 64) \o Zeros(k)

newOStream(bytes) ==
    IF Len(bytes) = 0 THEN [rawBuffer |-> <<>>, pos |-> 0]
    ELSE [rawBuffer |-> bytes, pos |-> 8]

lastIndex(s) == Len(s.rawBuffer)

hasUnusedBits(s) == s.pos > 0 /\ s.pos < 8

grow(s, v, np) == [rawBuffer |-> Append(s.rawBuffer, v), pos |-> np]

fillUnusedAssign(s, v) ==
    [s EXCEPT !.rawBuffer[lastIndex(s)] = ByteShl(v, s.pos)]

fillUnused(s, v) ==
    [s EXCEPT !.rawBuffer[lastIndex(s)] = ByteOr(@, ByteShl(v, s.pos))]

WriteBit(s, v) ==
    IF ~hasUnusedBits(s) THEN grow(s, v, 1)
    ELSE [fillUnused(s, v) EXCEPT !.pos = @ + 1]

WriteByteNoShift(s, v) ==
    IF ~hasUnusedBits(s) THEN grow(s, v, 8)
    ELSE grow(fillUnused(s, v), v, s.pos)

WriteByte(s, v) ==
    IF ~hasUnusedBits(s) THEN grow(s, v, 8)
    ELSE grow(fillUnused(s, v), ByteShr(v, 8 - s.pos), s.pos)

RECURSIVE WriteBytes(_, _)
WriteBytes(s, bytes) ==
    IF bytes = <<>> THEN s
    ELSE WriteBytes(WriteByte(s, Head(bytes)), Tail(bytes))

\* the second loop of WriteBits
RECURSIVE WriteBitsTail(_, _, _)
WriteBitsTail(s, v, numBits) ==
    IF numBits > 0 THEN WriteBitsTail(WriteBit(s, v[1]), Shr64(v, 1), numBits - 1)
    ELSE s

\* the first loop of WriteBits, followed by the second
RECURSIVE WriteBitsLoop(_, _, _)
WriteBitsLoop(s, v, numBits) ==
    IF numBits >= 8
    THEN WriteBitsLoop(WriteByte(s, ByteOf64(v)), Shr64(v, 8), numBits - 8)
    ELSE WriteBitsTail(s, v, numBits)

WriteBitsNoClamp(s, v, numBits) ==
    IF numBits = 0 THEN s
    ELSE WriteBitsLoop(s, v, numBits)

WriteBits(s, v, numBits) ==
    IF numBits = 0 THEN s
    ELSE WriteBitsLoop(s, v, IF numBits > 64 THEN 64 ELSE numBits)

\* Reset that truncates the buffer and keeps pos (C28)
OStreamResetKeepPos(s) == [rawBuffer |-> <<>>, pos |-> s.pos]

OStreamReset(s) == [rawBuffer |-> <<>>, pos |-> 0]

rawbytes(s) == <<s.rawBuffer, s.pos>>

(***************************************************************************)
(* The calls on one stream.  ol records the call made last, its arguments  *)
(* and the stream it was made on; written counts the bits asked for since  *)
(* the stream was empty.                                                   *)
(***************************************************************************)
StreamCall(op, v, n, bits) ==
    [op |-> op, v |-> v, n |-> n, ops |-> ol.ops + 1,
     written |-> IF op = "Reset" THEN 0 ELSE ol.written + bits,
     fromEmpty |-> ol.fromEmpty \/ op = "Reset", prev |-> os]

InitStream ==
    /\ InitFiles
    /\ it = NoIterator
    /\ itl = NoIteratorCall
    /\ \E bytes \in InitialBuffers :
          /\ os = newOStream(bytes)
          /\ ol = [op |-> "none", v |-> <<>>, n |-> 0, ops |-> 0, written |-> 0,
                   fromEmpty |-> bytes = <<>>, prev |-> newOStream(bytes)]

WriteBitStep ==
    \E v \in 0..1 :
        /\ ol.ops < MaxStreamOps
        /\ os' = WriteBit(os, v)
        /\ ol' = StreamCall("WriteBit", <<v>>, 1, 1)
        /\ UNCHANGED <<fileVars, iterVars>>

WriteByteStep ==
    \E v \in ByteInputs :
        /\ ol.ops < MaxStreamOps
        /\ os' = WriteByte(os, v)
        /\ ol' = StreamCall("WriteByte", <<v>>, 8, 8)
        /\ UNCHANGED <<fileVars, iterVars>>

WriteBytesStep ==
    \E bytes \in BytesInputs :
        /\ ol.ops < MaxStreamOps
        /\ os' = WriteBytes(os, bytes)
        /\ ol' = StreamCall("WriteBytes", bytes, 8 * Len(bytes), 8 * Len(bytes))
        /\ UNCHANGED <<fileVars, iterVars>>

WriteBitsStep ==
    \E v \in Uint64Inputs, numBits \in NumBitsInputs :
        /\ ol.ops < MaxStreamOps
        /\ os' = WriteBits(os, v, numBits)
        /\ ol' = StreamCall("WriteBits", v, numBits, Min(numBits, 64))
        /\ UNCHANGED <<fileVars, iterVars>>

ResetStep ==
    /\ ol.ops < MaxStreamOps
    /\ os' = OStreamReset(os)
    /\ ol' = StreamCall("Reset", <<>>, 0, 0)
    /\ UNCHANGED <<fileVars, iterVars>>

NextStream ==
    \/ WriteBitStep
    \/ WriteByteStep
    \/ WriteBytesStep
    \/ WriteBitsStep
    \/ ResetStep

SpecStream == InitStream /\ [][NextStream]_vars

(***************************************************************************)
(* Reading a stream back: the bits of the buffer in stream order (bit 0 of *)
(* each byte first), and read_bits(n) from a bit position, which puts the  *)
(* k-th bit read at bit k of the result.                                   *)
(***************************************************************************)
ByteBits(b) == [k \in 1..8 |-> BitOf(b, k - 1)]

RECURSIVE AllBits(_)
AllBits(bytes) ==
    IF bytes = <<>> THEN <<>> ELSE ByteBits(Head(bytes)) \o AllBits(Tail(bytes))

\* the number of bits the stream holds
BitLen(s) == IF Len(s.rawBuffer) = 0 THEN 0 ELSE 8 * (Len(s.rawBuffer) - 1) + s.pos

StreamBits(s) == Take(AllBits(s.rawBuffer), BitLen(s))

MirrorReadBits(s, from, n) ==
    LET bits == SubSeq(AllBits(s.rawBuffer), from + 1, from + n)
    IN  bits \o Zeros(64 - n)

\* v & ((1 << n) - 1)
Mask64(v, n) == SubSeq(v, 1, n) \o Zeros(64 - n)

WriteOps == {"WriteBit", "WriteByte", "WriteBytes", "WriteBits"}

(***************************************************************************)
(* C11  WriteBits(v, n) with n in 0..64, on a stream with any pos, appends *)
(* exactly n bits, and reading those n bits back in stream order gives     *)
(* v & ((1 << n) - 1); n = 0 leaves the stream as it was and n > 64 does   *)
(* what n = 64 does.                                                       *)
(***************************************************************************)
C11_BitsRoundTrip ==
    ol.op = "WriteBits" =>
        LET n == IF ol.n > 64 THEN 64 ELSE ol.n IN
        /\ BitLen(os) = BitLen(ol.prev) + n
        /\ Take(StreamBits(os), BitLen(ol.prev)) = StreamBits(ol.prev)
        /\ MirrorReadBits(os, BitLen(ol.prev), n) = Mask64(ol.v, n)
        /\ ol.n = 0 => os = ol.prev
        /\ ol.n > 64 => os = WriteBits(ol.prev, ol.v, 64)

C11_Witness ==
    /\ ol.op = "WriteBits" /\ ol.n = 13 /\ ol.v = Mixed64
    /\ ol.prev.pos = 5
    /\ MirrorReadBits(os, BitLen(ol.prev), 13) = Mask64(Mixed64, 13)
    /\ Mask64(Mixed64, 13) # Mixed64

(***************************************************************************)
(* C12  WriteByte(v) on a stream whose last byte is partially filled (pos  *)
(* in 1..7) ORs the low 8-pos bits of v into bits pos..7 of the last byte, *)
(* appends one byte with the remaining high bits of v in its low           *)
(* positions and keeps pos; for every pos the buffer and pos are those of  *)
(* eight WriteBit calls with the bits of v, lowest first.                  *)
(***************************************************************************)
RECURSIVE EightWriteBits(_, _, _)
EightWriteBits(s, v, k) ==
    IF k = 8 THEN s ELSE EightWriteBits(WriteBit(s, BitOf(v, k)), v, k + 1)

C12_WriteByteAcross ==
    ol.op = "WriteByte" =>
        LET v    == ol.v[1]
            p    == ol.prev
            pos  == p.pos
            last0 == p.rawBuffer[Len(p.rawBuffer)]
        IN  /\ os = EightWriteBits(p, v, 0)
            /\ pos \in 1..7 =>
                  /\ Len(os.rawBuffer) = Len(p.rawBuffer) + 1
                  /\ os.pos = pos
                  /\ \A k \in 0..7 :
                        BitOf(os.rawBuffer[Len(p.rawBuffer)], k) =
                            IF k < pos THEN BitOf(last0, k)
                            ELSE IF BitOf(last0, k) = 1 \/ BitOf(v, k - pos) = 1
                                 THEN 1 ELSE 0
                  /\ \A k \in 0..7 :
                        BitOf(os.rawBuffer[Len(os.rawBuffer)], k) =
                            IF k < pos THEN BitOf(v, k + 8 - pos) ELSE 0
                  /\ SubSeq(os.rawBuffer, 1, Len(p.rawBuffer) - 1) =
                         SubSeq(p.rawBuffer, 1, Len(p.rawBuffer) - 1)

C12_Witness ==
    /\ ol.op = "WriteByte" /\ ol.v = <<165>>
    /\ ol.prev.pos = 3 /\ ol.prev.rawBuffer = <<7>>
    /\ os = [rawBuffer |-> <<47, 5>>, pos |-> 3]

(***************************************************************************)
(* C13  The stream is append-only on write: no WriteBit, WriteByte,        *)
(* WriteBytes or WriteBits call changes a bit that was already written     *)
(* (the bytes before the last byte and the bits below pos of the last      *)
(* byte), and the length in bits decreases only by Reset.                  *)
(***************************************************************************)
C13_AppendOnly ==
    /\ ol.op \in WriteOps =>
          /\ BitLen(os) >= BitLen(ol.prev)
          /\ Take(AllBits(os.rawBuffer), BitLen(ol.prev)) = StreamBits(ol.prev)
    /\ BitLen(os) < BitLen(ol.prev) => ol.op = "Reset"

C13_Witness ==
    /\ ol.op \in WriteOps
    /\ ol.prev.pos \in 1..7
    /\ BitLen(ol.prev) > 8
    /\ \E k \in 1..BitLen(ol.prev) : StreamBits(ol.prev)[k] = 1
    /\ BitLen(os) > BitLen(ol.prev) + 8

(***************************************************************************)
(* The proto iterator of src/unnamed/part_002.                             *)
(*                                                                         *)
(* The stream the iterator reads is a sequence of bits in stream order;    *)
(* it.stream is the part not yet read and it.consumed the number of bits   *)
(* read.  The schema of the model has four fields:                         *)
(*   1 bytes (custom encoded), 2 bool, 3 message-typed, 4 repeated int32   *)
(* (packed).  A message is a function from field number to value: a byte   *)
(* sequence for fields 1, 3 and 4 and 0 or 1 for field 2.  The headers of  *)
(* the model declare bytes fields only: the float and integer cases of     *)
(* readFirstCustomValues and readNextCustomValues are not exercised.       *)
(***************************************************************************)
MaxLRU == 3      \* LRU sizes a header advertises are 0..MaxLRU

NumFields == 4

opCodeNoMoreData == 0
opCodeMoreData == 1
opCodeNoChange == 0
opCodeChange == 1
opCodeInterpretSubsequentBitsAsLRUIndex == 1
opCodeInterpretSubsequentBitsAsBytesLengthVarInt == 0
opCodeNoFieldsSetToDefaultProtoMarshal == 0
opCodeFieldsSetToDefaultProtoMarshal == 1
opCodeBitsetValueIsSet == 1
cNotCustomEncoded == 0
cSignedInt64 == 1
cSignedInt32 == 2
cUnsignedInt64 == 3
cUnsignedInt32 == 4
cBytes == 7
OpcodeZeroSig == 0
opCodeIntDeltaPositive == 0
opCodeIntDeltaNegative == 1
maxMarshaledProtoMessageSize == 8
TimestampBits == 2

errIteratorSchemaIsRequired == "schema is required"

FieldNums == 1..NumFields
ScalarFields == {2}
MessageFields == {3}
RepeatedFields == {4}
WireBytesFields == {1, 3, 4}

\* dynamic.NewMessage(schema): every field at its proto default
NewMessage == [f \in FieldNums |-> IF f \in ScalarFields THEN 0 ELSE <<>>]

isDefaultValue(field, curVal) == curVal = NewMessage[field]

\* dynamic.Message.Marshal: the set fields in field-number order
MarshalMessage(m) ==
    BytesField(1, m[1]) \o VarintField(2, m[2]) \o BytesField(3, m[3])
        \o BytesField(4, m[4])

\* dynamic.Message.Unmarshal into a new message of the schema
UnmarshalMessage(bytes) == UnmarshalLoop(bytes, NewMessage, WireBytesFields)

\* a uint64 of the iterator: its 64 bits, bit 0 first
Zero64 == [k \in 1..64 |-> 0]

newCustomFieldState(fieldNum, fieldType) ==
    [fieldNum |-> fieldNum, fieldType |-> fieldType, iteratorBytesFieldDict |-> <<>>,
     prevFloatBits |-> Zero64, intSigBitsTracker |-> [NumSig |-> 0]]

\* customFields(nil, schema) and resetCustomFields(_, schema)
customFields(schemaSet) ==
    IF schemaSet THEN <<newCustomFieldState(1, cBytes)>> ELSE <<>>

\* the number of bits of a dictionary index: ceil(log2(n))
RECURSIVE numBitsRequiredForNumUpToN(_)
numBitsRequiredForNumUpToN(n) ==
    IF n <= 1 THEN 0 ELSE 1 + numBitsRequiredForNumUpToN((n + 1) \div 2)

RECURSIVE BitsToNat(_)
BitsToNat(bits) == IF bits = <<>> THEN 0 ELSE Head(bits) + 2 * BitsToNat(Tail(bits))

RECURSIVE NatToBits(_, _)
NatToBits(v, n) == IF n = 0 THEN <<>> ELSE <<v % 2>> \o NatToBits(v \div 2, n - 1)

(***************************************************************************)
(* The result of a step of the decoder: the iterator after it, the error   *)
(* ("nil" for none) and the value read.                                    *)
(***************************************************************************)
Ok(i, v) == [it |-> i, err |-> "nil", v |-> v]

Fail(i, err) == [it |-> i, err |-> err, v |-> 0]

\* replaces the error of a failed step (fmt.Errorf around err)
Wrap(res, err) == IF res.err = "nil" THEN res ELSE Fail(res.it, err)

(***************************************************************************)
(* encoding.IStream: forward-only reads, bit 0 of each byte first; a read  *)
(* that finds the source exhausted fails with io.EOF.                      *)
(***************************************************************************)
IStreamReadBit(i) ==
    IF i.stream = <<>> THEN Fail(i, "EOF")
    ELSE Ok([i EXCEPT !.stream = Tail(@), !.consumed = @ + 1], Head(i.stream))

IStreamReadBits(i, numBits) ==
    IF Len(i.stream) < numBits
    THEN Fail([i EXCEPT !.stream = <<>>, !.consumed = @ + Len(i.stream)], "EOF")
    ELSE Ok([i EXCEPT !.stream = Drop(@, numBits), !.consumed = @ + numBits],
            BitsToNat(Take(i.stream, numBits)))

IStreamReadByte(i) == IStreamReadBits(i, 8)

RemainingBitsInCurrentByte(i) == (8 - (i.consumed % 8)) % 8

\* IStream.Read(buf) with len(buf) = n, byte by byte: res.v is what was read
IStreamReadStep(res, rb) ==
    IF rb.err # "nil" THEN Fail(rb.it, rb.err) ELSE Ok(rb.it, Append(res.v, rb.v))

RECURSIVE IStreamReadLoop(_, _)
IStreamReadLoop(res, n) ==
    IF res.err # "nil" \/ n = 0 THEN res
    ELSE IStreamReadLoop(IStreamReadStep(res, IStreamReadByte(res.it)), n - 1)

IStreamRead(i, n) == IStreamReadLoop(Ok(i, <<>>), n)

(***************************************************************************)
(* readVarInt: bytes are read until one has its high bit clear, then       *)
(* binary.Uvarint gives the value (the varints of the model have at most   *)
(* two bytes).                                                             *)
(***************************************************************************)
RECURSIVE readVarIntLoop(_, _, _)
RECURSIVE readVarIntByte(_, _, _)
readVarIntByte(rb, x, mult) ==
    IF rb.err # "nil" THEN Fail(rb.it, "error reading var int")
    ELSE IF rb.v \div 128 = 0 THEN Ok(rb.it, x + rb.v * mult)
    ELSE readVarIntLoop(rb.it, x + (rb.v % 128) * mult, mult * 128)

readVarIntLoop(i, x, mult) == readVarIntByte(IStreamReadByte(i), x, mult)

readVarInt(i) == readVarIntLoop(i, 0, 1)

(***************************************************************************)
(* readHeader and readCustomFieldsSchema.  The test                        *)
(* maxCustomFieldNum > maxCustomFieldNum of the code compares the value    *)
(* read with itself and never fails.                                       *)
(***************************************************************************)
RECURSIVE readCustomFieldsSchemaLoop(_, _, _)
RECURSIVE readFieldType(_, _, _)
readFieldType(rb, k, n) ==
    IF rb.err # "nil" THEN rb
    ELSE IF rb.v = cNotCustomEncoded THEN readCustomFieldsSchemaLoop(rb.it, k + 1, n)
    ELSE readCustomFieldsSchemaLoop(
            [rb.it EXCEPT !.customFields = Append(@, newCustomFieldState(k, rb.v))],
            k + 1, n)

readCustomFieldsSchemaLoop(i, k, n) ==
    IF k > n THEN Ok(i, 0) ELSE readFieldType(IStreamReadBits(i, 3), k, n)

readCustomFieldsSchemaNum(rv) ==
    IF rv.err # "nil" THEN rv
    ELSE IF rv.v > rv.v THEN Fail(rv.it, "maximum custom field in header")
    ELSE readCustomFieldsSchemaLoop([rv.it EXCEPT !.customFields = <<>>], 1, rv.v)

readCustomFieldsSchema(i) == readCustomFieldsSchemaNum(readVarInt(i))

readHeaderLRUSize(rv) ==
    IF rv.err # "nil" THEN rv
    ELSE readCustomFieldsSchema([rv.it EXCEPT !.byteFieldDictLRUSize = rv.v])

readHeaderVersion(rv) ==
    IF rv.err # "nil" THEN rv ELSE readHeaderLRUSize(readVarInt(rv.it))

readHeader(i) == readHeaderVersion(readVarInt(i))

(***************************************************************************)
(* m3tsz.ReaderIterator.ReadTimestamp on the shared stream: the timestamp  *)
(* of a record is a delta of TimestampBits bits.                           *)
(***************************************************************************)
ReadTimestampBits(i, rb) ==
    IF rb.err # "nil" THEN [rb.it EXCEPT !.tszErr = rb.err]
    ELSE [rb.it EXCEPT !.tszTime = @ + rb.v]

ReadTimestamp(i) == ReadTimestampBits(i, IStreamReadBits(i, TimestampBits))

(***************************************************************************)
(* The LRU dictionary of a bytes field.  Indices of the code are 0-based,  *)
(* sequences 1-based.                                                      *)
(***************************************************************************)
Swap(s, a, b) == [s EXCEPT ![a] = s[b], ![b] = s[a]]

\* the loop of moveToEndOfBytesDict from j on
RECURSIVE moveToEndLoop(_, _)
moveToEndLoop(existing, j) ==
    IF j >= Len(existing) THEN existing
    ELSE IF j + 1 >= Len(existing) THEN existing
    ELSE moveToEndLoop(Swap(existing, j + 1, j + 2), j + 1)

moveToEndSwapWithTail(i, fieldIdx, idx) ==
    [i EXCEPT !.customFields[fieldIdx].iteratorBytesFieldDict =
                  Swap(@, idx + 1, Len(@))]

moveToEndNoMove(i, fieldIdx, idx) ==
    i

moveToEndOfBytesDict(i, fieldIdx, idx) ==
    [i EXCEPT !.customFields[fieldIdx].iteratorBytesFieldDict = moveToEndLoop(@, idx)]

\* the shift loop of addToBytesDict from k on
RECURSIVE shiftLoop(_, _)
shiftLoop(existing, k) ==
    IF k >= Len(existing) THEN existing
    ELSE IF k + 1 >= Len(existing) THEN existing
    ELSE shiftLoop([existing EXCEPT ![k + 1] = existing[k + 2]], k + 1)

\* existing[len(existing)-1] = b on an empty dictionary is an index out of
\* range: the call panics
addToBytesDict(i, fieldIdx, b) ==
    IF Len(i.customFields[fieldIdx].iteratorBytesFieldDict) < i.byteFieldDictLRUSize
    THEN [i EXCEPT !.customFields[fieldIdx].iteratorBytesFieldDict = Append(@, b)]
    ELSE IF Len(i.customFields[fieldIdx].iteratorBytesFieldDict) = 0
    THEN [i EXCEPT !.panic = TRUE]
    ELSE [i EXCEPT !.customFields[fieldIdx].iteratorBytesFieldDict =
                       [shiftLoop(@, 0) EXCEPT ![Len(@)] = b]]

skipToNextByte(i) == IStreamReadBits(i, RemainingBitsInCurrentByte(i))

(***************************************************************************)
(* readBytesValue(i, customField) for the custom field at index k.         *)
(***************************************************************************)
readBytesNew(rb, k) ==
    IF rb.err # "nil" THEN rb
    ELSE Ok(addToBytesDict(
              [rb.it EXCEPT !.lastIterated[rb.it.customFields[k].fieldNum] = rb.v],
              k, rb.v), 0)

readBytesPadded(rs, k, bytesLen) ==
    IF rs.err # "nil" THEN rs
    ELSE readBytesNew(Wrap(IStreamReadLoop(Ok(rs.it, <<>>), bytesLen),
                           "error trying to read byte in readBytes"), k)

readBytesLen(rv, k) ==
    IF rv.err # "nil" THEN rv
    ELSE readBytesPadded(Wrap(skipToNextByte(rv.it),
                              "error trying to skip bytes value bit padding"),
                         k, rv.v)

\* a dictionary index past the end read as "no change" (C29)
readBytesDictIdxLenient(rb, k) ==
    IF rb.err # "nil" THEN rb
    ELSE IF rb.v >= Len(rb.it.customFields[k].iteratorBytesFieldDict) \/ rb.v < 0
    THEN Ok(rb.it, 0)
    ELSE Ok(moveToEndOfBytesDict(
              [rb.it EXCEPT !.lastIterated[rb.it.customFields[k].fieldNum] =
                                rb.it.customFields[k].iteratorBytesFieldDict[rb.v + 1]],
              k, rb.v), 0)

readBytesDictIdx(rb, k) ==
    IF rb.err # "nil" THEN rb
    ELSE IF rb.v >= Len(rb.it.customFields[k].iteratorBytesFieldDict) \/ rb.v < 0
    THEN Fail(rb.it, "read bytes field dictionary index out of range")
    ELSE Ok(moveToEndOfBytesDict(
              [rb.it EXCEPT !.lastIterated[rb.it.customFields[k].fieldNum] =
                                rb.it.customFields[k].iteratorBytesFieldDict[rb.v + 1]],
              k, rb.v), 0)

readBytesInDict(rb, k) ==
    IF rb.err # "nil" THEN rb
    ELSE IF rb.v = opCodeInterpretSubsequentBitsAsLRUIndex
    THEN readBytesDictIdx(
            Wrap(IStreamReadBits(rb.it,
                     numBitsRequiredForNumUpToN(rb.it.byteFieldDictLRUSize)),
                 "error trying to read bytes dict idx"), k)
    ELSE readBytesLen(Wrap(readVarInt(rb.it), "error trying to read bytes length"), k)

readBytesChanged(rb, k) ==
    IF rb.err # "nil" THEN rb
    ELSE IF rb.v = opCodeNoChange THEN Ok(rb.it, 0)
    ELSE readBytesInDict(Wrap(IStreamReadBit(rb.it),
                              "error trying to read bytes changed control bit"), k)

readBytesValue(i, k) ==
    readBytesChanged(Wrap(IStreamReadBit(i),
                          "error trying to read bytes changed control bit"), k)

(***************************************************************************)
(* Integer fields.  uint64 and int64 values are 64 bits, bit 0 first;      *)
(* + and - of Go wrap around, and int64(x), uint64(x) keep the bits.       *)
(***************************************************************************)
isCustomIntEncodedField(fieldType) ==
    fieldType \in {cSignedInt64, cSignedInt32, cUnsignedInt64, cUnsignedInt32}

\* a + b + carry from bit k on
RECURSIVE AddFrom(_, _, _, _)
AddFrom(a, b, carry, k) ==
    IF k > 64 THEN <<>>
    ELSE <<(a[k] + b[k] + carry) % 2>>
             \o AddFrom(a, b, (a[k] + b[k] + carry) \div 2, k + 1)

Add64(a, b) == AddFrom(a, b, 0, 1)

\* a - b - borrow from bit k on
RECURSIVE SubFrom(_, _, _, _)
SubFrom(a, b, borrow, k) ==
    IF k > 64 THEN <<>>
    ELSE <<(2 + a[k] - b[k] - borrow) % 2>>
             \o SubFrom(a, b, IF a[k] - b[k] - borrow < 0 THEN 1 ELSE 0, k + 1)

Sub64(a, b) == SubFrom(a, b, 0, 1)

\* sign * diff of int64, sign being 1 or -1
MulSign64(sign, diff) == IF sign = 1 THEN diff ELSE Sub64(Zero64, diff)

\* it.readBits(numBits) as a uint64
readBits(i, numBits) ==
    IF Len(i.stream) < numBits
    THEN Fail([i EXCEPT !.stream = <<>>, !.consumed = @ + Len(i.stream)], "EOF")
    ELSE Ok([i EXCEPT !.stream = Drop(@, numBits), !.consumed = @ + numBits],
            Take(i.stream, numBits) \o [k \in 1..(64 - numBits) |-> 0])

readIntSigNum(rb, k) ==
    IF rb.err # "nil" THEN Fail(rb.it, "error reading number of significant digits")
    ELSE Ok([rb.it EXCEPT !.customFields[k].intSigBitsTracker.NumSig =
                              ((BitsToNat(Take(rb.v, 6)) % 256) + 1) % 256], 0)

readIntSigZero(rb, k) ==
    IF rb.err # "nil"
    THEN Fail(rb.it, "error reading zero significant digits control bit")
    ELSE IF rb.v = OpcodeZeroSig
    THEN Ok([rb.it EXCEPT !.customFields[k].intSigBitsTracker.NumSig = 0], 0)
    ELSE readIntSigNum(readBits(rb.it, 6), k)

readIntSigUpdate(rb, k) ==
    IF rb.err # "nil"
    THEN Fail(rb.it, "error reading int significant digits update control bit")
    ELSE IF rb.v = opCodeNoChange THEN Ok(rb.it, 0)
    ELSE readIntSigZero(IStreamReadBit(rb.it), k)

readIntSig(i, k) == readIntSigUpdate(IStreamReadBit(i), k)

\* the unsigned 64-bit case
readIntValDiffUnsigned(rd, k, negativeControlBit) ==
    IF negativeControlBit = opCodeIntDeltaNegative
    THEN Ok([rd.it EXCEPT !.customFields[k].prevFloatBits = Sub64(@, rd.v)], 0)
    ELSE Ok([rd.it EXCEPT !.customFields[k].prevFloatBits = Add64(@, rd.v)], 0)

\* the other integer types
readIntValDiffSigned(rd, k, negativeControlBit) ==
    Ok([rd.it EXCEPT !.customFields[k].prevFloatBits =
           Add64(@, MulSign64(IF negativeControlBit = opCodeIntDeltaNegative
                              THEN -1 ELSE 1, rd.v))], 0)

\* the sign not looked at
readIntValDiffBitsNoSign(rd, k, negativeControlBit) ==
    IF rd.err # "nil" THEN Fail(rd.it, "error reading significant digits")
    ELSE Ok([rd.it EXCEPT !.customFields[k].prevFloatBits = Add64(@, rd.v)], 0)

readIntValDiffBits(rd, k, negativeControlBit) ==
    IF rd.err # "nil" THEN Fail(rd.it, "error reading significant digits")
    ELSE IF rd.it.customFields[k].fieldType = cUnsignedInt64
    THEN readIntValDiffUnsigned(rd, k, negativeControlBit)
    ELSE readIntValDiffSigned(rd, k, negativeControlBit)

readIntValDiffSign(rb, k) ==
    IF rb.err # "nil" THEN Fail(rb.it, "error reading negative control bit")
    ELSE readIntValDiffBits(
            readBits(rb.it, rb.it.customFields[k].intSigBitsTracker.NumSig), k, rb.v)

readIntValDiff(i, k) == readIntValDiffSign(IStreamReadBit(i), k)

\* the int cases of updateLastIteratedWithCustomValues: int64(x) and
\* uint64(x) keep the 64 bits, int32(x) and uint32(x) the low 32
updateLastIteratedWithCustomValues(i, k) ==
    IF i.customFields[k].fieldType \in {cSignedInt64, cUnsignedInt64}
    THEN Ok([i EXCEPT !.lastIterated[i.customFields[k].fieldNum] =
                          i.customFields[k].prevFloatBits], 0)
    ELSE IF i.customFields[k].fieldType \in {cSignedInt32, cUnsignedInt32}
    THEN Ok([i EXCEPT !.lastIterated[i.customFields[k].fieldNum] =
                          Take(i.customFields[k].prevFloatBits, 32)], 0)
    ELSE Fail(i, "unhandled fieldType")

readIntValueUpdate(rd, k) ==
    IF rd.err # "nil" THEN Fail(rd.it, "error trying to read int diff")
    ELSE Wrap(updateLastIteratedWithCustomValues(rd.it, k),
              "error updating last iterated with int value")

readIntValueDiff(rs, k) ==
    IF rs.err # "nil"
    THEN Fail(rs.it, "error trying to read number of significant digits")
    ELSE readIntValueUpdate(readIntValDiff(rs.it, k), k)

readIntValueChanged(rb, k) ==
    IF rb.err # "nil"
    THEN Fail(rb.it, "error trying to read int change exists control bit")
    ELSE IF rb.v = opCodeNoChange THEN Ok(rb.it, 0)
    ELSE readIntValueDiff(readIntSig(rb.it, k), k)

readIntValue(i, k, first) ==
    IF ~first THEN readIntValueChanged(IStreamReadBit(i), k)
    ELSE readIntValueDiff(readIntSig(i, k), k)

(***************************************************************************)
(* readFirstCustomValues / readNextCustomValues: the custom fields in      *)
(* order; the float cases are not modelled.                                *)
(***************************************************************************)
readCustomValue(i, k) ==
    IF i.customFields[k].fieldType = cBytes THEN readBytesValue(i, k)
    ELSE IF isCustomIntEncodedField(i.customFields[k].fieldType)
    THEN readIntValue(i, k, ~i.consumedFirstMessage)
    ELSE Fail(i, "unhandled custom field type")

RECURSIVE readCustomValuesLoop(_, _)
readCustomValuesLoop(res, k) ==
    IF res.err # "nil" \/ res.it.panic THEN res
    ELSE IF k > Len(res.it.customFields) THEN res
    ELSE readCustomValuesLoop(readCustomValue(res.it, k), k + 1)

readFirstCustomValues(i) == readCustomValuesLoop(Ok(i, 0), 1)

readNextCustomValues(i) == readCustomValuesLoop(Ok(i, 0), 1)

readCustomValues(i) ==
    IF ~i.consumedFirstMessage THEN readFirstCustomValues(i)
    ELSE readNextCustomValues(i)

(***************************************************************************)
(* readBitset: bit k (0-based) set names field number k + 1.               *)
(***************************************************************************)
readBitsetBit(rb, k) ==
    IF rb.err # "nil" THEN Fail(rb.it, "error reading bitset")
    ELSE IF rb.v = opCodeBitsetValueIsSet
    THEN Ok([rb.it EXCEPT !.bitsetValues = Append(@, k + 1)], 0)
    ELSE Ok(rb.it, 0)

RECURSIVE readBitsetLoop(_, _, _)
readBitsetLoop(res, k, bitsetLengthBits) ==
    IF res.err # "nil" \/ ~(k < bitsetLengthBits) THEN res
    ELSE readBitsetLoop(readBitsetBit(IStreamReadBit(res.it), k), k + 1,
                        bitsetLengthBits)

readBitsetLen(rv) ==
    IF rv.err # "nil" THEN rv ELSE readBitsetLoop(Ok(rv.it, 0), 0, rv.v)

readBitset(i) == readBitsetLen(readVarInt([i EXCEPT !.bitsetValues = <<>>]))

(***************************************************************************)
(* readProtoValues.  ctl is fieldsSetToDefaultControlBit.                  *)
(***************************************************************************)
\* the loop over m.GetKnownFields() from field f on
RECURSIVE mergeKnownFields(_, _, _)
mergeKnownFields(i, m, f) ==
    IF f > NumFields THEN i
    ELSE IF f \notin MessageFields /\ f \notin RepeatedFields
    THEN mergeKnownFields(i, m, f + 1)
    ELSE IF isDefaultValue(f, m[f]) THEN mergeKnownFields(i, m, f + 1)
    ELSE mergeKnownFields([i EXCEPT !.lastIterated[f] = m[f]], m, f + 1)

\* the loop over it.bitsetValues from index k on
RECURSIVE clearBitsetFields(_, _)
clearBitsetFields(i, k) ==
    IF k > Len(i.bitsetValues) THEN Ok(i, 0)
    ELSE IF i.bitsetValues[k] \notin FieldNums
    THEN Fail(i, "error clearing field number")
    ELSE clearBitsetFields(
            [i EXCEPT !.lastIterated[i.bitsetValues[k]] = NewMessage[i.bitsetValues[k]]],
            k + 1)

clearFields(i, ctl) == IF ctl = 1 THEN clearBitsetFields(i, 1) ELSE Ok(i, 0)

\* the clearing done first and the diff merged after it
mergeUnmarshaledClearFirst(i, u, ctl) ==
    IF ~u.ok THEN Fail(i, "error unmarshaling protobuf")
    ELSE IF clearFields(i, ctl).err # "nil" THEN clearFields(i, ctl)
    ELSE Ok(mergeKnownFields(clearFields(i, ctl).it, u.msg, 1), 0)

mergeUnmarshaled(i, u, ctl) ==
    IF ~u.ok THEN Fail(i, "error unmarshaling protobuf")
    ELSE clearFields(mergeKnownFields(i, u.msg, 1), ctl)

readProtoBytes(rb, ctl) ==
    IF rb.err # "nil" THEN rb
    ELSE mergeUnmarshaled(rb.it, UnmarshalMessage(rb.v), ctl)

readProtoMarshalLen(rv, ctl) ==
    IF rv.err # "nil" THEN rv
    ELSE IF rv.v > maxMarshaledProtoMessageSize
    THEN Fail(rv.it, "marshaled protobuf size larger than the maximum")
    ELSE readProtoBytes(Wrap(IStreamReadLoop(Ok(rv.it, <<>>), rv.v),
                             "error reading marshaled proto bytes"), ctl)

readProtoLen(rs, ctl) ==
    IF rs.err # "nil" THEN rs
    ELSE readProtoMarshalLen(Wrap(readVarInt(rs.it),
                                  "err reading proto length varint"), ctl)

readProtoDefaultBit(rb) ==
    IF rb.err # "nil" THEN rb
    ELSE IF rb.v = opCodeFieldsSetToDefaultProtoMarshal
    THEN readProtoLen(Wrap(readBitset(rb.it),
                           "error reading changed proto field numbers bitset"),
                      rb.v)
    ELSE readProtoLen(Ok(rb.it, 0), rb.v)

readProtoChanges(rb) ==
    IF rb.err # "nil" THEN rb
    ELSE IF rb.v = opCodeNoChange THEN Ok(rb.it, 0)
    ELSE readProtoDefaultBit(Wrap(IStreamReadBit(rb.it),
                                  "err reading field set to default control bit"))

readProtoValues(i) ==
    readProtoChanges(Wrap(IStreamReadBit(i),
                          "err reading proto changes control bit"))

(***************************************************************************)
(* The iterator.  readerNil says that the stream was reset with a nil      *)
(* reader; lastSchema says whether lastIterated was made with a schema;    *)
(* panic says that a call did not return; pooled counts pool.Put(it).      *)
(***************************************************************************)
NewIterator(schemaSet) ==
    [err |-> "nil", schemaSet |-> schemaSet, lastSchema |-> schemaSet,
     stream |-> <<>>, consumed |-> 0, readerNil |-> FALSE,
     consumedFirstMessage |-> FALSE,
     lastIterated |-> NewMessage, lastIteratedAnnotation |-> <<>>,
     byteFieldDictLRUSize |-> 0, customFields |-> customFields(schemaSet),
     bitsetValues |-> <<>>, done |-> FALSE, closed |-> FALSE,
     tszTime |-> 0, tszErr |-> "nil", panic |-> FALSE, pooled |-> 0]

hasError(i) == i.err # "nil"

isDone(i) == i.done

isClosed(i) == i.closed

\* an error not looked at
hasNextIgnoringError(i) == ~isDone(i) /\ ~isClosed(i)

hasNext(i) == ~hasError(i) /\ ~isDone(i) /\ ~isClosed(i)

Err(i) == i.err

Current(i) == <<i.tszTime, i.lastIteratedAnnotation>>

\* what a call of Next gives: the iterator after it and the value returned
Ret(i, v) == [it |-> i, ret |-> v]

NextFailed(res) == Ret([res.it EXCEPT !.err = res.err], FALSE)

NextRecordRead(i) == Ret(i, hasNext(i))

NextProto(rp) ==
    IF rp.err # "nil" THEN NextFailed(rp)
    ELSE NextRecordRead([rp.it EXCEPT
                            !.lastIteratedAnnotation = MarshalMessage(rp.it.lastIterated),
                            !.consumedFirstMessage = TRUE])

NextCustom(rc) ==
    IF rc.it.panic THEN Ret(rc.it, FALSE)
    ELSE IF rc.err # "nil" THEN NextFailed(rc)
    ELSE NextProto(readProtoValues(rc.it))

NextTimestamp(i) ==
    IF i.tszErr # "nil" THEN Ret([i EXCEPT !.err = i.tszErr], FALSE)
    ELSE NextCustom(readCustomValues(i))

\* the end of the stream not kept
NextMoreDataNotDone(rb) ==
    IF rb.err = "EOF" \/ (rb.err = "nil" /\ rb.v = opCodeNoMoreData)
    THEN Ret(rb.it, FALSE)
    ELSE IF rb.err # "nil" THEN NextFailed(rb)
    ELSE NextTimestamp(ReadTimestamp(rb.it))

NextMoreData(rb) ==
    IF rb.err = "EOF" \/ (rb.err = "nil" /\ rb.v = opCodeNoMoreData)
    THEN Ret([rb.it EXCEPT !.done = TRUE], FALSE)
    ELSE IF rb.err # "nil" THEN NextFailed(rb)
    ELSE NextTimestamp(ReadTimestamp(rb.it))

NextHeader(rh) ==
    IF rh.err # "nil" THEN NextFailed(rh)
    ELSE NextMoreData(IStreamReadBit(rh.it))

\* a read from a stream that was reset with a nil reader does not return
NextChecked(i) ==
    IF ~hasNext(i) THEN Ret(i, FALSE)
    ELSE IF i.readerNil THEN Ret([i EXCEPT !.panic = TRUE], FALSE)
    ELSE IF ~i.consumedFirstMessage THEN NextHeader(readHeader(i))
    ELSE NextMoreData(IStreamReadBit(i))

\* the schema not looked at
IteratorNextAnySchema(i) == NextChecked(i)

IteratorNext(i) ==
    NextChecked(IF ~i.schemaSet THEN [i EXCEPT !.err = errIteratorSchemaIsRequired]
                ELSE i)

\* Reset(reader): reader is nil or a reader the stream bits come from
IteratorReset(i, readerNil) ==
    [i EXCEPT !.stream = <<>>, !.consumed = 0, !.readerNil = readerNil,
              !.tszTime = 0, !.tszErr = "nil",
              !.err = "nil",
              !.consumedFirstMessage = FALSE,
              !.lastIterated = NewMessage, !.lastSchema = i.schemaSet,
              !.lastIteratedAnnotation = <<>>,
              !.customFields = customFields(i.schemaSet),
              !.done = FALSE,
              !.closed = FALSE,
              !.byteFieldDictLRUSize = 0]

SetSchema(i, schemaSet) ==
    [i EXCEPT !.schemaSet = schemaSet, !.customFields = customFields(schemaSet)]

\* Close: the unmarshal buffer of the model never exceeds
\* maxCapacityUnmarshalBufferRetain; the options have a pool
IteratorClose(i) ==
    IF i.closed THEN i
    ELSE [IteratorReset([i EXCEPT !.closed = TRUE], TRUE) EXCEPT !.pooled = @ + 1]

(***************************************************************************)
(* The streams of the model, as the encoder lays them out: a header, then  *)
(* records.  at is the bit position in the stream where a piece starts     *)
(* (for the padding to the next byte).                                     *)
(***************************************************************************)
MaxDictNexts == 6      \* Next calls in one behaviour of SpecDict

VarintBits(v) == AllBits(EncodeVarint(v))

PadBits(at) == Zeros((8 - (at % 8)) % 8)

HeaderBits(lruSize, types) ==
    VarintBits(1) \o VarintBits(lruSize) \o VarintBits(Len(types))
        \o NatToBits(types[1], 3) \o NatToBits(types[2], 3)
        \o NatToBits(types[3], 3) \o NatToBits(types[4], 3)

SchemaTypes == <<cBytes, cNotCustomEncoded, cNotCustomEncoded, cNotCustomEncoded>>

\* the custom-field block of a record: the bytes field
NewBytesBits(at, v) ==
    <<opCodeChange, opCodeInterpretSubsequentBitsAsBytesLengthVarInt>>
        \o VarintBits(Len(v)) \o PadBits(at + 2 + 8) \o AllBits(v)

BytesOpBits(at, op, lruSize) ==
    IF op.kind = "same" THEN <<opCodeNoChange>>
    ELSE IF op.kind = "new" THEN NewBytesBits(at, op.v)
    ELSE <<opCodeChange, opCodeInterpretSubsequentBitsAsLRUIndex>>
            \o NatToBits(op.idx, numBitsRequiredForNumUpToN(lruSize))

\* the proto block of a record
ProtoOpBits(op) ==
    IF op.kind = "same" THEN <<opCodeNoChange>>
    ELSE <<opCodeChange>>
            \o (IF op.clear
                THEN <<opCodeFieldsSetToDefaultProtoMarshal>>
                         \o VarintBits(Len(op.bitset)) \o op.bitset
                ELSE <<opCodeNoFieldsSetToDefaultProtoMarshal>>)
            \o VarintBits(op.len) \o AllBits(op.bytes)

RecordBits(at, rec, lruSize) ==
    <<opCodeMoreData>> \o NatToBits(1, TimestampBits)
        \o BytesOpBits(at + 1 + TimestampBits, rec.bytes, lruSize)
        \o ProtoOpBits(rec.proto)

\* the stream from position at on: the header at the start, then the record
ChunkBits(at, rec, lruSize) ==
    IF at = 0
    THEN HeaderBits(lruSize, SchemaTypes)
             \o RecordBits(Len(HeaderBits(lruSize, SchemaTypes)), rec, lruSize)
    ELSE RecordBits(at, rec, lruSize)

DictValues == {<<97>>, <<98>>, <<99>>}

SameBytes == [kind |-> "same", v |-> <<>>, idx |-> 0]
NewBytes(v) == [kind |-> "new", v |-> v, idx |-> 0]
IdxBytes(k) == [kind |-> "idx", v |-> <<>>, idx |-> k]

SameProto == [kind |-> "same", clear |-> FALSE, bitset |-> <<>>, len |-> 0,
              bytes |-> <<>>]

BytesOps(lruSize) ==
    {SameBytes} \cup {NewBytes(v) : v \in DictValues}
        \cup {IdxBytes(k) : k \in 0..(Pow2(numBitsRequiredForNumUpToN(lruSize)) - 1)}

(***************************************************************************)
(* The calls on one iterator.  itl records the call made last: what it     *)
(* returned, the record the stream was continued with, the LRU size of    *)
(* the stream's header, and how far the behaviour follows scenario S5.     *)
(***************************************************************************)
StreamAt(i) == i.consumed + Len(i.stream)

A == <<97>>
B == <<98>>
C == <<99>>

\* the index of value v in dictionary d (0-based), Len(d) when absent
RECURSIVE IndexOf(_, _, _)
IndexOf(d, v, k) ==
    IF k > Len(d) THEN Len(d) ELSE IF d[k] = v THEN k - 1 ELSE IndexOf(d, v, k + 1)

Dict(i) == i.customFields[1].iteratorBytesFieldDict

\* scenario S5: a (new), b (new), a (hit), c (new), a (hit), a (hit)
S5New == <<A, B, <<>>, C, <<>>, <<>>>>

S5Follows(i, k, rec, lruSize) ==
    /\ lruSize = 3
    /\ rec.proto = SameProto
    /\ IF S5New[k] # <<>> THEN rec.bytes = NewBytes(S5New[k])
       ELSE /\ Len(i.customFields) = 1
            /\ rec.bytes = IdxBytes(IndexOf(Dict(i), A, 1))

S5Progress(i, s5, rec, lruSize) ==
    IF s5 >= 0 /\ s5 < 6 /\ S5Follows(i, s5 + 1, rec, lruSize) THEN s5 + 1 ELSE -1

NextCall(res, rec, lruSize, s5) ==
    [op |-> "Next", ret |-> res.ret, rec |-> rec, lruSize |-> lruSize,
     nexts |-> itl.nexts + 1, s5 |-> s5]

InitCall == [op |-> "none", ret |-> FALSE, rec |-> [bytes |-> SameBytes, proto |-> SameProto],
             lruSize |-> 0, nexts |-> 0, s5 |-> 0]

\* Next on the stream continued with record rec
NextOn(rec, lruSize) ==
    /\ ~it.panic
    /\ StreamAt(it) > 0 => lruSize = itl.lruSize
    /\ it' = IteratorNext(
                [it EXCEPT !.stream = @ \o ChunkBits(StreamAt(it), rec, lruSize)]).it
    /\ itl' = NextCall(
                IteratorNext(
                   [it EXCEPT !.stream = @ \o ChunkBits(StreamAt(it), rec, lruSize)]),
                rec, lruSize, S5Progress(it, itl.s5, rec, lruSize))
    /\ UNCHANGED <<fileVars, streamVars>>

InitDict ==
    /\ InitFiles
    /\ os = NoStream
    /\ ol = NoStreamCall
    /\ it = NewIterator(TRUE)
    /\ itl = InitCall

DictNextStep ==
    \E lruSize \in 0..MaxLRU :
        \E op \in BytesOps(lruSize) :
            /\ itl.nexts < MaxDictNexts
            /\ NextOn([bytes |-> op, proto |-> SameProto], lruSize)

NextDict == DictNextStep

SpecDict == InitDict /\ [][NextDict]_vars

(***************************************************************************)
(* C14  Scenario S5 as the claim states it: with LRU size 3, decoding the  *)
(* bytes values a (new), b (new), a (hit), c (new), a (hit) leaves the     *)
(* dictionary equal to [c, b, a], and a following a is resolved through    *)
(* the in-dictionary path.                                                 *)
(***************************************************************************)
S5Values == <<A, B, A, C, A, A>>

S5Decoded ==
    \A k \in 1..6 :
        itl.s5 = k => /\ itl.ret /\ Err(it) = "nil"
                      /\ it.lastIterated[1] = S5Values[k]

C14_ScenarioS5 ==
    /\ S5Decoded
    /\ itl.s5 = 5 => Dict(it) = <<C, B, A>>
    /\ itl.s5 = 6 => itl.rec.bytes.kind = "idx"

(***************************************************************************)
(* C14 as amended: the five decodes leave the dictionary equal to          *)
(* [b, c, a] (least recently used first), and a following a is resolved    *)
(* through the in-dictionary path, at index 2, leaving [b, c, a].          *)
(***************************************************************************)
C14_ScenarioS5Amended ==
    /\ S5Decoded
    /\ itl.s5 = 5 => Dict(it) = <<B, C, A>>
    /\ itl.s5 = 6 => /\ itl.rec.bytes = IdxBytes(2)
                     /\ Dict(it) = <<B, C, A>>

C14_Witness ==
    /\ itl.s5 = 6 /\ itl.nexts = 6 /\ itl.ret
    /\ itl.rec.bytes.kind = "idx"
    /\ it.lastIterated[1] = A

(***************************************************************************)
(* C15  LRU dictionary, L >= 1: a new value is put at the tail, and the    *)
(* entry at index 0 is evicted (the others shifting left by one) exactly   *)
(* when the dictionary already holds L entries; a hit at index i moves     *)
(* that entry to the tail and keeps the order of the others; the length    *)
(* never exceeds L and the most recently used value is last.               *)
(***************************************************************************)
Without(d, k) == SubSeq(d, 1, k - 1) \o SubSeq(d, k + 1, Len(d))

C15_Step ==
    (itl'.op = "Next" /\ itl'.lruSize >= 1 /\ Len(it'.customFields) = 1
       /\ Len(it.customFields) = 1) =>
        /\ Len(Dict(it')) <= itl'.lruSize
        /\ itl'.ret =>
              /\ itl'.rec.bytes.kind = "same" => Dict(it') = Dict(it)
              /\ itl'.rec.bytes.kind = "new" =>
                    /\ Len(Dict(it)) = itl'.lruSize =>
                          Dict(it') = Tail(Dict(it)) \o <<itl'.rec.bytes.v>>
                    /\ Len(Dict(it)) < itl'.lruSize =>
                          Dict(it') = Dict(it) \o <<itl'.rec.bytes.v>>
              /\ itl'.rec.bytes.kind = "idx" =>
                    /\ itl'.rec.bytes.idx < Len(Dict(it))
                    /\ Dict(it') = Without(Dict(it), itl'.rec.bytes.idx + 1)
                                      \o <<Dict(it)[itl'.rec.bytes.idx + 1]>>
              /\ itl'.rec.bytes.kind # "same" =>
                    Dict(it')[Len(Dict(it'))] = it'.lastIterated[1]

C15_LRUDictionary == [][C15_Step]_vars

C15_Witness ==
    /\ itl.op = "Next" /\ itl.ret /\ itl.lruSize = 3
    /\ itl.rec.bytes = IdxBytes(0)
    /\ Len(Dict(it)) = 3
    /\ Dict(it)[1] # Dict(it)[2] /\ Dict(it)[2] # Dict(it)[3] /\ Dict(it)[1] # Dict(it)[3]

(***************************************************************************)
(* The calls on one iterator over streams with non-custom fields: field 2  *)
(* (a bool), field 3 (message-typed) and field 4 (repeated).  The stream   *)
(* is continued with a chunk whenever the iterator has read all of it: a   *)
(* record, a record cut short, the terminating bit or nothing (EOF).       *)
(***************************************************************************)
MaxIterCalls == 3      \* calls on the iterator in one behaviour of SpecIter

IterLRU == 2

NonCustomFields == ScalarFields \cup MessageFields \cup RepeatedFields

DiffProto(bitset, bytes) ==
    [kind |-> "diff", clear |-> bitset # <<>>, bitset |-> bitset,
     len |-> Len(bytes), bytes |-> bytes]

\* marshaled diffs: field 2 = true, field 3 = [7], field 4 = [9], 3 and 4,
\* 2 and 3, nothing, a field whose length runs past the end, and one of
\* more than maxMarshaledProtoMessageSize bytes
DiffBytes ==
    {<<16, 1>>, <<26, 1, 7>>, <<34, 1, 9>>, <<26, 1, 7, 34, 1, 9>>,
     <<16, 1, 26, 1, 7>>, <<>>, <<26, 5, 7>>, <<26, 7, 1, 2, 3, 4, 5, 6, 7>>}

\* the ceiling of bitset_len_bits
maxBitsetLengthBits == 8

\* clear bitsets: none, field 2, field 3, fields 3 and 4, field 5 (not in
\* the schema), and one of more than maxBitsetLengthBits bits naming field 3
ClearBitsets ==
    {<<>>, <<0, 1>>, <<0, 0, 1>>, <<0, 0, 1, 1>>, <<0, 0, 0, 0, 1>>,
     <<0, 0, 1, 0, 0, 0, 0, 0, 0>>}

ProtoOps == {SameProto} \cup {DiffProto(bs, d) : bs \in ClearBitsets, d \in DiffBytes}

IterRecords == [bytes : {SameBytes, NewBytes(A)}, proto : ProtoOps]

NoRecord == [bytes |-> SameBytes, proto |-> SameProto]

CutLens == {1, 1 + TimestampBits + 1}

IterChunks ==
    {[kind |-> "record", rec |-> rc, n |-> 0] : rc \in IterRecords}
        \cup {[kind |-> "cut", rec |-> NoRecord, n |-> n] : n \in CutLens}
        \cup {[kind |-> "end", rec |-> NoRecord, n |-> 0],
              [kind |-> "eof", rec |-> NoRecord, n |-> 0]}

IterBodyBits(at, chunk) ==
    IF chunk.kind = "record" THEN RecordBits(at, chunk.rec, IterLRU)
    ELSE IF chunk.kind = "cut" THEN Take(RecordBits(at, chunk.rec, IterLRU), chunk.n)
    ELSE IF chunk.kind = "end" THEN <<opCodeNoMoreData>>
    ELSE <<>>

\* the stream from position at on: the header at the start (of a stream
\* that has any bit), then the chunk
IterChunkBits(at, chunk) ==
    IF chunk.kind = "eof" THEN <<>>
    ELSE IF at = 0
    THEN HeaderBits(IterLRU, SchemaTypes)
             \o IterBodyBits(Len(HeaderBits(IterLRU, SchemaTypes)), chunk)
    ELSE IterBodyBits(at, chunk)

\* the reader gives the chunk once the iterator has read all before it
IterFeed(i, chunk) ==
    IF i.stream = <<>>
    THEN [i EXCEPT !.stream = IterChunkBits(StreamAt(i), chunk)]
    ELSE i

IterCall(op, ret, chunk, fed) ==
    [op |-> op, ret |-> ret, rec |-> chunk.rec, lruSize |-> IterLRU,
     nexts |-> 0, s5 |-> -1, kind |-> chunk.kind, chunk |-> chunk, fed |-> fed,
     calls |-> itl.calls + 1]

InitIterCall ==
    [op |-> "none", ret |-> FALSE, rec |-> NoRecord, lruSize |-> IterLRU,
     nexts |-> 0, s5 |-> -1, kind |-> "eof",
     chunk |-> [kind |-> "eof", rec |-> NoRecord, n |-> 0], fed |-> FALSE,
     calls |-> 0]

InitIter ==
    /\ InitFiles
    /\ os = NoStream
    /\ ol = NoStreamCall
    /\ \E schemaSet \in BOOLEAN : it = NewIterator(schemaSet)
    /\ itl = InitIterCall

IterCanCall == itl.calls < MaxIterCalls /\ ~it.panic

\* Next; an iterator whose schema was set after its last message was made
\* is Reset before it is advanced
IterNextResult(res, chunk, fed) ==
    /\ it' = res.it
    /\ itl' = IterCall("Next", res.ret, chunk, fed)

IterNextStep ==
    \E chunk \in IterChunks :
        /\ IterCanCall
        /\ it.schemaSet => it.lastSchema
        /\ IterNextResult(IteratorNext(IterFeed(it, chunk)), chunk, it.stream = <<>>)
        /\ UNCHANGED <<fileVars, streamVars>>

IterResetStep ==
    /\ IterCanCall
    /\ it' = IteratorReset(it, FALSE)
    /\ itl' = IterCall("Reset", FALSE, InitIterCall.chunk, FALSE)
    /\ UNCHANGED <<fileVars, streamVars>>

IterSetSchemaStep ==
    \E schemaSet \in BOOLEAN :
        /\ IterCanCall
        /\ it' = SetSchema(it, schemaSet)
        /\ itl' = IterCall("SetSchema", FALSE, InitIterCall.chunk, FALSE)
        /\ UNCHANGED <<fileVars, streamVars>>

IterCloseStep ==
    /\ IterCanCall
    /\ it' = IteratorClose(it)
    /\ itl' = IterCall("Close", FALSE, InitIterCall.chunk, FALSE)
    /\ UNCHANGED <<fileVars, streamVars>>

NextIter == IterNextStep \/ IterResetStep \/ IterSetSchemaStep \/ IterCloseStep

SpecIter == InitIter /\ [][NextIter]_vars

(***************************************************************************)
(* What a record's proto block says: the fields its clear bitset names     *)
(* (bit k, 0-based, names field k + 1) and the message its bytes unmarshal  *)
(* to.                                                                     *)
(***************************************************************************)
ClearedFields(op) ==
    IF op.clear THEN {k \in 1..Len(op.bitset) : op.bitset[k] = 1} ELSE {}

DiffMessage(op) == UnmarshalMessage(op.bytes).msg

\* the last Next decoded a whole record that carries a marshaled diff
DecodedDiff(call) ==
    /\ call.op = "Next" /\ call.ret /\ call.fed
    /\ call.kind = "record" /\ call.rec.proto.kind = "diff"

\* every non-default field of diff u is in last, unless the bitset clears it
DiffCopied(msg, u, cleared) ==
    \A f \in NonCustomFields :
        /\ (~isDefaultValue(f, u[f]) /\ f \notin cleared) => msg[f] = u[f]
        /\ f \in cleared => isDefaultValue(f, msg[f])

(***************************************************************************)
(* C16  Decode merge rule: when a record carries a marshaled diff, every   *)
(* known field of the unmarshaled diff (scalar, message-typed or repeated) *)
(* whose value is not its proto default is copied into the last message    *)
(* before the clear bitset is applied: after the record the field has the  *)
(* diff's value unless the bitset names it, and then it is cleared.        *)
(***************************************************************************)
C16_Step ==
    DecodedDiff(itl') =>
        DiffCopied(it'.lastIterated, DiffMessage(itl'.rec.proto),
                   ClearedFields(itl'.rec.proto))

C16_MergeRule == [][C16_Step]_vars

\* the fields that are neither non-default in diff u nor cleared are as in prev
DiffRetained(prev, msg, u, cleared) ==
    \A f \in NonCustomFields :
        /\ f \in cleared => isDefaultValue(f, msg[f])
        /\ (isDefaultValue(f, u[f]) /\ f \notin cleared) => msg[f] = prev[f]

(***************************************************************************)
(* C17  Clear-and-retain rule: the clear bitset is applied after the diff  *)
(* is merged, bit k (0-based) naming field k + 1, so a field that is in    *)
(* the diff and in the bitset ends cleared; a non-custom field that is     *)
(* neither non-default in the diff nor in the bitset keeps its value; and  *)
(* a record whose proto-changes bit is 0 leaves every non-custom field of  *)
(* the last message as it was.                                             *)
(***************************************************************************)
C17_Step ==
    /\ DecodedDiff(itl') =>
          DiffRetained(it.lastIterated, it'.lastIterated,
                       DiffMessage(itl'.rec.proto), ClearedFields(itl'.rec.proto))
    /\ (itl'.op = "Next" /\ itl'.ret /\ itl'.rec.proto.kind = "same") =>
          \A f \in NonCustomFields : it'.lastIterated[f] = it.lastIterated[f]

C17_ClearAndRetain == [][C17_Step]_vars

\* field 3 was [7]; a record whose diff has field 3 and field 4 and whose
\* bitset names field 3 was decoded: field 3 is cleared and field 4 is [9]
C17_Witness ==
    /\ DecodedDiff(itl)
    /\ itl.calls = 2
    /\ itl.rec.proto.bytes = <<26, 1, 7, 34, 1, 9>>
    /\ itl.rec.proto.bitset = <<0, 0, 1>>
    /\ it.lastIterated[3] = <<>>
    /\ it.lastIterated[4] = <<9>>

(***************************************************************************)
(* A call of Next that reads: the iterator has a schema and a reader and   *)
(* neither failed nor ended.  A well-formed record: its marshaled diff is  *)
(* no longer than the maximum and unmarshals, and its bitset names fields  *)
(* of the schema.                                                          *)
(***************************************************************************)
CanRead(i) == hasNext(i) /\ i.schemaSet /\ ~i.readerNil

\* Next was called on an iterator that reads, the reader giving a record
DecodedAttempt(i, call) ==
    call.op = "Next" /\ CanRead(i) /\ call.fed /\ call.kind = "record"

WellFormedProto(op) ==
    \/ op.kind = "same"
    \/ /\ op.len <= maxMarshaledProtoMessageSize
       /\ UnmarshalMessage(op.bytes).ok
       /\ ClearedFields(op) \subseteq FieldNums

WellFormed(chunk) == chunk.kind = "record" /\ WellFormedProto(chunk.rec.proto)

\* Next read no bit of the stream the reader holds
NothingRead(i, j, chunk) ==
    /\ j.consumed = i.consumed
    /\ j.stream = IterFeed(i, chunk).stream

(***************************************************************************)
(* C18  Stream termination: when the more-data bit at the start of a       *)
(* record is 0, or the stream is at EOF there, Next returns false with the *)
(* iterator done and Err() nil; every later Next returns false, reads no   *)
(* bit and leaves the current value, until Reset.  Next returns true       *)
(* exactly when one whole record was decoded.                              *)
(***************************************************************************)
C18_Step ==
    itl'.op = "Next" =>
        /\ (/\ CanRead(it) /\ itl'.fed
            /\ \/ itl'.kind = "end"
               \/ itl'.kind = "eof" /\ it.consumedFirstMessage) =>
               ~itl'.ret /\ isDone(it') /\ Err(it') = "nil"
        /\ isDone(it) =>
               /\ ~itl'.ret /\ isDone(it')
               /\ NothingRead(it, it', itl'.chunk)
               /\ Current(it') = Current(it)
        /\ itl'.ret <=> (CanRead(it) /\ itl'.fed /\ WellFormed(itl'.chunk))
        /\ itl'.ret =>
               /\ it'.stream = <<>>
               /\ it'.consumed = StreamAt(it) + Len(IterChunkBits(StreamAt(it), itl'.chunk))
               /\ it'.consumedFirstMessage
               /\ Err(it') = "nil" /\ ~isDone(it')

C18_StreamTermination == [][C18_Step]_vars

\* a record was decoded, the stream ended, and a third Next found the
\* iterator done and left the bits of another record unread
C18_Witness ==
    /\ itl.op = "Next" /\ itl.calls = 3 /\ ~itl.ret
    /\ isDone(it) /\ Err(it) = "nil"
    /\ it.consumedFirstMessage
    /\ itl.kind = "record"
    /\ it.stream # <<>>

(***************************************************************************)
(* C19  An iterator in error state is not recoverable: once a Next has     *)
(* recorded an error, Err() stays non-nil and every later Next returns     *)
(* false, reads no bit of the stream and changes neither the last message  *)
(* nor the annotation Current returns, until Reset is called.              *)
(***************************************************************************)
C19_Step ==
    (hasError(it) /\ itl'.op \in {"Next", "SetSchema"}) =>
        /\ hasError(it')
        /\ itl'.op = "Next" =>
              /\ ~itl'.ret
              /\ NothingRead(it, it', itl'.chunk)
              /\ it'.lastIterated = it.lastIterated
              /\ Current(it') = Current(it)

C19_ErrorIsSticky == [][C19_Step]_vars

\* the first Next failed on an oversized diff with the diff's bytes unread;
\* the second Next returned false and left them unread
C19_Witness ==
    /\ itl.op = "Next" /\ itl.calls = 2 /\ ~itl.ret /\ ~itl.fed
    /\ it.schemaSet
    /\ Err(it) = "marshaled protobuf size larger than the maximum"
    /\ Len(it.stream) = 72

(***************************************************************************)
(* C20  Next on an iterator whose schema is not set returns false with     *)
(* Err() equal to the schema-required error and reads nothing from the     *)
(* stream, neither header nor record bits.                                 *)
(***************************************************************************)
C20_Step ==
    (itl'.op = "Next" /\ ~it.schemaSet) =>
        /\ ~itl'.ret
        /\ Err(it') = errIteratorSchemaIsRequired
        /\ NothingRead(it, it', itl'.chunk)
        /\ it'.consumedFirstMessage = it.consumedFirstMessage

C20_SchemaRequired == [][C20_Step]_vars

\* Next on a new iterator without a schema, the reader holding a header
\* and a record
C20_Witness ==
    /\ itl.op = "Next" /\ itl.calls = 1 /\ ~itl.ret /\ itl.fed
    /\ itl.kind = "record"
    /\ ~it.schemaSet
    /\ Err(it) = errIteratorSchemaIsRequired
    /\ it.consumed = 0 /\ it.stream # <<>>

(***************************************************************************)
(* A record whose proto block declares a length over its ceiling: Next     *)
(* fails, the bits after the length are unread and the non-custom fields   *)
(* of the last message are as before.                                      *)
(***************************************************************************)
OversizedBitset(op) == op.clear /\ Len(op.bitset) > maxBitsetLengthBits

OversizedMarshal(op) == op.len > maxMarshaledProtoMessageSize

Rejected(i, j, call, unread) ==
    /\ ~call.ret
    /\ hasError(j)
    /\ j.stream = unread
    /\ \A f \in NonCustomFields : j.lastIterated[f] = i.lastIterated[f]

\* the part about marshaled_len
MarshalLenRejected ==
    (DecodedAttempt(it, itl') /\ itl'.rec.proto.kind = "diff"
       /\ ~OversizedBitset(itl'.rec.proto) /\ OversizedMarshal(itl'.rec.proto)) =>
        /\ Rejected(it, it', itl', AllBits(itl'.rec.proto.bytes))
        /\ Err(it') = "marshaled protobuf size larger than the maximum"

\* the part about bitset_len_bits
BitsetLenRejected ==
    (DecodedAttempt(it, itl') /\ itl'.rec.proto.kind = "diff"
       /\ OversizedBitset(itl'.rec.proto)) =>
        Rejected(it, it', itl',
                 itl'.rec.proto.bitset \o VarintBits(itl'.rec.proto.len)
                     \o AllBits(itl'.rec.proto.bytes))

(***************************************************************************)
(* C21  Oversized lengths are rejected: a marshaled_len varint, or a       *)
(* bitset_len_bits varint, over the configured ceiling makes Next fail     *)
(* with an Oversized error before any of the declared payload bytes or     *)
(* bitset bits is consumed, and the record's proto-diff section does not   *)
(* modify the last message.                                                *)
(***************************************************************************)
C21_OversizedRejected == [][MarshalLenRejected /\ BitsetLenRejected]_vars

(***************************************************************************)
(* The decoding of one integer field: an iterator whose only custom field  *)
(* is field 1 of an integer type, and a stream that is continued at each   *)
(* call of readIntValue with the bits of one value: the change bit (but    *)
(* for the first value), the significant-bits update, the sign bit and     *)
(* the NumSig bits of the diff.                                            *)
(***************************************************************************)
MaxIntCalls == 2      \* calls of readIntValue in one behaviour of SpecInt

IntTypes == {cSignedInt64, cSignedInt32, cUnsignedInt64, cUnsignedInt32}

SigInputs == {1, 2, 63, 64}

\* the significant-bits update: kept (-1), set to zero, or set to n
SigUpdates == {-1, 0} \cup SigInputs

DiffKinds == {"zeros", "ones", "low", "top"}

IntOps ==
    [change : {0, 1}, sig : SigUpdates, neg : {0, 1}, diff : DiffKinds, cut : {FALSE}]
        \cup {[change |-> 1, sig |-> -1, neg |-> 0, diff |-> "zeros", cut |-> TRUE]}

SigAfter(sig, numSig) ==
    IF sig = -1 THEN numSig ELSE sig

SigBits(sig) ==
    IF sig = -1 THEN <<opCodeNoChange>>
    ELSE IF sig = 0 THEN <<opCodeChange, OpcodeZeroSig>>
    ELSE <<opCodeChange, 1 - OpcodeZeroSig>> \o NatToBits(sig - 1, 6)

\* the n bits of a diff, bit 0 first
DiffBits(kind, n) ==
    [k \in 1..n |-> IF kind = "ones" THEN 1
                    ELSE IF kind = "low" /\ k = 1 THEN 1
                    ELSE IF kind = "top" /\ k = n THEN 1
                    ELSE 0]

IntChanged(op, first) == first \/ op.change = opCodeChange

IntValueBits(op, first, numSig) ==
    (IF first THEN <<>> ELSE <<op.change>>)
        \o (IF IntChanged(op, first)
            THEN SigBits(op.sig) \o <<op.neg>>
                     \o DiffBits(op.diff, SigAfter(op.sig, numSig))
            ELSE <<>>)

IntFeed(i, op, first) ==
    [i EXCEPT !.stream =
        IF op.cut THEN Take(IntValueBits(op, first, i.customFields[1].intSigBitsTracker.NumSig), 1)
        ELSE IntValueBits(op, first, i.customFields[1].intSigBitsTracker.NumSig)]

NewIntIterator(fieldType) ==
    [NewIterator(TRUE) EXCEPT !.customFields = <<newCustomFieldState(1, fieldType)>>,
                              !.lastIterated[1] = Zero64]

IntCall(res, op, first) ==
    [op |-> "readIntValue", err |-> res.err, input |-> op, first |-> first,
     calls |-> itl.calls + 1]

InitInt ==
    /\ InitFiles
    /\ os = NoStream
    /\ ol = NoStreamCall
    /\ \E fieldType \in IntTypes : it = NewIntIterator(fieldType)
    /\ itl = [op |-> "none", err |-> "nil",
              input |-> [change |-> 0, sig |-> -1, neg |-> 0, diff |-> "zeros",
                         cut |-> FALSE],
              first |-> FALSE, calls |-> 0]

IntValueResult(res, op, first) ==
    /\ it' = res.it
    /\ itl' = IntCall(res, op, first)

IntValueStep ==
    \E op \in IntOps :
        /\ itl.calls < MaxIntCalls
        /\ itl.err = "nil"
        /\ IntValueResult(readIntValue(IntFeed(it, op, itl.calls = 0), 1, itl.calls = 0),
                          op, itl.calls = 0)
        /\ UNCHANGED <<fileVars, streamVars>>

NextInt == IntValueStep

SpecInt == InitInt /\ [][NextInt]_vars

(***************************************************************************)
(* Arithmetic modulo 2^64 on four 16-bit limbs, to compare with.           *)
(***************************************************************************)
Limbs(v) == [j \in 1..4 |-> BitsToNat(SubSeq(v, 16 * (j - 1) + 1, 16 * j))]

RECURSIVE LimbsAddFrom(_, _, _, _)
LimbsAddFrom(a, b, carry, j) ==
    IF j > 4 THEN <<>>
    ELSE <<(a[j] + b[j] + carry) % 65536>>
             \o LimbsAddFrom(a, b, (a[j] + b[j] + carry) \div 65536, j + 1)

\* x + y modulo 2^64
SumMod64(x, y) == LimbsAddFrom(Limbs(x), Limbs(y), 0, 1)

PrevBits(i) == i.customFields[1].prevFloatBits

NumSigBits(i) == i.customFields[1].intSigBitsTracker.NumSig

\* the diff a call read, as a uint64
DiffRead(call, numSig) == DiffBits(call.input.diff, numSig) \o [k \in 1..(64 - numSig) |-> 0]

\* the signed and the unsigned-64 code path on prev and diff
SamePattern(i, diff, neg) ==
    PrevBits(readIntValDiffSigned(Ok(i, diff), 1, neg).it)
        = PrevBits(readIntValDiffUnsigned(Ok(i, diff), 1, neg).it)

IntDiffApplied(i, j, diff, neg) ==
    /\ neg = opCodeIntDeltaPositive => Limbs(PrevBits(j)) = SumMod64(PrevBits(i), diff)
    /\ neg = opCodeIntDeltaNegative => Limbs(PrevBits(i)) = SumMod64(PrevBits(j), diff)
    /\ SamePattern(i, diff, neg)

(***************************************************************************)
(* C22  Integer diff decoding: for every custom int field type the new     *)
(* prev_bits is prev_bits + diff when the sign bit says positive and       *)
(* prev_bits - diff when it says negative, modulo 2^64; the signed code    *)
(* path and the unsigned-64 code path give the same 64 bits for every      *)
(* prev_bits and every diff of up to 64 significant bits; and num_sig_bits *)
(* stays within [0, 64].                                                   *)
(***************************************************************************)
C22_Step ==
    (itl'.op = "readIntValue" /\ itl'.err = "nil") =>
        /\ NumSigBits(it') \in 0..64
        /\ IF IntChanged(itl'.input, itl'.first)
           THEN /\ NumSigBits(it') = SigAfter(itl'.input.sig, NumSigBits(it))
                /\ IntDiffApplied(it, it', DiffRead(itl', NumSigBits(it')),
                                  itl'.input.neg)
           ELSE PrevBits(it') = PrevBits(it) /\ NumSigBits(it') = NumSigBits(it)

C22_IntDiff == [][C22_Step]_vars

\* a signed 64-bit field at 0 read the diff 2^64 - 1 with the negative sign:
\* prev_bits wrapped around to 1
C22_Witness ==
    /\ itl.op = "readIntValue" /\ itl.err = "nil"
    /\ it.customFields[1].fieldType = cSignedInt64
    /\ NumSigBits(it) = 64
    /\ itl.input.diff = "ones" /\ itl.input.neg = opCodeIntDeltaNegative
    /\ PrevBits(it) = [k \in 1..64 |-> IF k = 1 THEN 1 ELSE 0]

(***************************************************************************)
(* rules.MatchResult: an expiry time, the staged policies of the mappings  *)
(* and the rollup results, each an ID and its staged policies.  A stage    *)
(* is its cutover time and its tombstone flag.  it is the match result,    *)
(* itl the call made last on it and what it returned.                      *)
(***************************************************************************)
MaxStages == 2        \* stages in a policies list
MaxTime == 3          \* times are 0..MaxTime nanoseconds
MaxResultCalls == 2   \* queries on the result in one behaviour of SpecResult

Times == 0..MaxTime

Cutovers == 1..(MaxTime - 1)

NewStagedPolicies(cutoverNanos, tombstoned) ==
    [CutoverNanos |-> cutoverNanos, Tombstoned |-> tombstoned]

SeqsUpTo(S, n) == UNION {[1..k -> S] : k \in 0..n}

MappingLists ==
    SeqsUpTo({NewStagedPolicies(c, t) : c \in Cutovers, t \in BOOLEAN}, MaxStages)

RollupLists == SeqsUpTo({NewStagedPolicies(c, FALSE) : c \in Cutovers}, MaxStages)

RollupIDs == <<"rName1", "rName2">>

RollupInputs ==
    {[k \in 1..Len(ls) |-> [ID |-> RollupIDs[k], PoliciesList |-> ls[k]]] :
        ls \in SeqsUpTo(RollupLists, 2)}

NewMatchResult(expireAtNanos, mappings, rollups) ==
    [expireAtNanos |-> expireAtNanos, mappings |-> mappings, rollups |-> rollups]

\* the expiry time compared the other way
HasExpiredStrictlyAfter(mr, t) == mr.expireAtNanos < t

HasExpired(mr, t) == mr.expireAtNanos <= t

NumRollups(mr) == Len(mr.rollups)

\* the scan for a stage that has cut over, from index idx down
RECURSIVE activePoliciesFrom(_, _, _)
activePoliciesFrom(policies, timeNanos, idx) ==
    IF idx < 1 THEN policies
    ELSE IF policies[idx].CutoverNanos <= timeNanos
    THEN SubSeq(policies, idx, Len(policies))
    ELSE activePoliciesFrom(policies, timeNanos, idx - 1)

\* the suffix from the first stage that has cut over
activePoliciesAtFirst(policies, timeNanos) ==
    IF \E k \in 1..Len(policies) : policies[k].CutoverNanos <= timeNanos
    THEN SubSeq(policies,
                CHOOSE k \in 1..Len(policies) :
                    /\ policies[k].CutoverNanos <= timeNanos
                    /\ \A j \in 1..(k - 1) : policies[j].CutoverNanos > timeNanos,
                Len(policies))
    ELSE policies

activePoliciesAt(policies, timeNanos) ==
    activePoliciesFrom(policies, timeNanos, Len(policies))

MappingsAt(mr, t) == activePoliciesAt(mr.mappings, t)

RollupsAt(mr, idx, t) ==
    [ID |-> mr.rollups[idx].ID,
     PoliciesList |-> activePoliciesAt(mr.rollups[idx].PoliciesList, t)]

ResultCall(op, t, idx, ans) ==
    [op |-> op, t |-> t, idx |-> idx, ans |-> ans, calls |-> itl.calls + 1,
     made |-> itl.made]

InitResult ==
    /\ InitFiles
    /\ os = NoStream
    /\ ol = NoStreamCall
    /\ \E e \in Times, ms \in MappingLists, rs \in RollupInputs :
          /\ it = NewMatchResult(e, ms, rs)
          /\ itl = [op |-> "none", t |-> 0, idx |-> 0, ans |-> FALSE, calls |-> 0,
                    made |-> NewMatchResult(e, ms, rs)]

HasExpiredStep ==
    \E t \in Times :
        /\ itl.calls < MaxResultCalls
        /\ itl' = ResultCall("HasExpired", t, 0, HasExpired(it, t))
        /\ UNCHANGED <<it, fileVars, streamVars>>

MappingsAtStep ==
    \E t \in Times :
        /\ itl.calls < MaxResultCalls
        /\ itl' = ResultCall("MappingsAt", t, 0, MappingsAt(it, t))
        /\ UNCHANGED <<it, fileVars, streamVars>>

RollupsAtStep ==
    \E t \in Times :
        \E idx \in 1..NumRollups(it) :
            /\ itl.calls < MaxResultCalls
            /\ itl' = ResultCall("RollupsAt", t, idx, RollupsAt(it, idx, t))
            /\ UNCHANGED <<it, fileVars, streamVars>>

NumRollupsStep ==
    /\ itl.calls < MaxResultCalls
    /\ itl' = ResultCall("NumRollups", 0, 0, NumRollups(it))
    /\ UNCHANGED <<it, fileVars, streamVars>>

NextResult == HasExpiredStep \/ MappingsAtStep \/ RollupsAtStep \/ NumRollupsStep

SpecResult == InitResult /\ [][NextResult]_vars

(***************************************************************************)
(* C23  A match result created with expiry time E reports HasExpired(t)    *)
(* true exactly when t >= E: false for every t before E, true at t = E     *)
(* and after.                                                              *)
(***************************************************************************)
C23_HasExpired ==
    itl.op = "HasExpired" =>
        /\ itl.t < itl.made.expireAtNanos => itl.ans = FALSE
        /\ itl.t >= itl.made.expireAtNanos => itl.ans = TRUE

C23_Witness ==
    /\ itl.op = "HasExpired" /\ itl.ans = TRUE
    /\ itl.made.expireAtNanos > 0
    /\ itl.t = itl.made.expireAtNanos

\* the stages of list ps still in force at time t: from the last stage
\* that has cut over on, or all when none has
Superseding(ps, t) == {k \in 1..Len(ps) : ps[k].CutoverNanos <= t}

ActiveStages(ps, t) ==
    IF Superseding(ps, t) = {} THEN ps
    ELSE SubSeq(ps, CHOOSE k \in Superseding(ps, t) :
                        \A j \in Superseding(ps, t) : j <= k, Len(ps))

(***************************************************************************)
(* C24  MappingsAt(t) and RollupsAt(i, t) return the staged-policies list  *)
(* with the superseded stages dropped: the suffix from the last stage      *)
(* whose cutover time is <= t, or the whole list when no stage has cut     *)
(* over; RollupsAt keeps the rollup ID; NumRollups() does not depend on t; *)
(* and the answer for t does not depend on the times queried before.       *)
(***************************************************************************)
C24_ActivePolicies ==
    /\ it = itl.made
    /\ itl.op = "MappingsAt" => itl.ans = ActiveStages(itl.made.mappings, itl.t)
    /\ itl.op = "RollupsAt" =>
          /\ itl.ans.ID = itl.made.rollups[itl.idx].ID
          /\ itl.ans.PoliciesList =
                ActiveStages(itl.made.rollups[itl.idx].PoliciesList, itl.t)
    /\ itl.op = "NumRollups" => itl.ans = Len(itl.made.rollups)

\* the second query, at a time when both stages of the mappings have cut
\* over: only the last stage is returned
C24_Witness ==
    /\ itl.op = "MappingsAt" /\ itl.calls = 2
    /\ Len(itl.made.mappings) = 2
    /\ itl.made.mappings[1].CutoverNanos < itl.made.mappings[2].CutoverNanos
    /\ itl.made.mappings[2].CutoverNanos <= itl.t
    /\ itl.ans = <<itl.made.mappings[2]>>

(***************************************************************************)
(* C25  Every Open starts a fresh block: on a writer that has already      *)
(* written and closed a block, the first record appended after the next    *)
(* Open has idx 0 and offset 0, and the info header written by the next    *)
(* Close has entries equal to the number of appends since that Open.       *)
(***************************************************************************)
C25_FreshBlock ==
    (gh.prior /\ ~gh.sessErr) =>
        /\ Len(SessRecs) >= 1 =>
              /\ Len(ParseIndex(fs[gh.sessBlk].index.bytes)) >= 1
              /\ ParseIndex(fs[gh.sessBlk].index.bytes)[1].idx = 0
              /\ ParseIndex(fs[gh.sessBlk].index.bytes)[1].offset = 0
        /\ (last.op = "Close" /\ last.err = "nil") =>
              /\ ReadInfo(fs[last.blk].info.bytes).ok
              /\ ReadInfo(fs[last.blk].info.bytes).info.entries = Len(gh.recs[last.blk])

(***************************************************************************)
(* C26  Writer Close releases the info, index and data descriptors on      *)
(* every exit path: also when truncating the info file or writing the      *)
(* header fails, all three files are closed before Close returns the       *)
(* error.                                                                  *)
(***************************************************************************)
C26_Step ==
    (last'.op = "Close" /\ \A f \in FileNames : w.fd[f].st = "open") =>
        \A f \in FileNames : w'.fd[f].st = "closed"

C26_CloseReleases == [][C26_Step]_vars

(***************************************************************************)
(* Damage to both the marker and the idx of one record of a finished       *)
(* block, and the specification that adds it to the single-fault damage.   *)
(***************************************************************************)
FlipBoth(b, ord, mpos, mbit, ipos, ibit) ==
    /\ dmg.kind = "none"
    /\ ~r.used
    /\ gh.clean[b]
    /\ ord \in 1..Len(gh.recs[b])
    /\ LET at == FrameStart(gh.recs[b], ord) IN
       fs' = [fs EXCEPT ![b].data.bytes[at + mpos] = FlipByteBit(@, mbit),
                        ![b].data.bytes[at + ipos] = FlipByteBit(@, ibit)]
    /\ dmg' = [kind |-> "both", blk |-> b, ord |-> ord]
    /\ last' = [NoLast EXCEPT !.op = "FlipBoth", !.blk = b]
    /\ UNCHANGED <<w, r, gh, os, ol, it, itl>>

FlipBothStep ==
    \E b \in Starts, ord \in 1..MaxAppends, mpos \in 1..markerLen,
       ipos \in (markerLen + 1)..(markerLen + idxLen), mbit \in {0, 7},
       ibit \in {0, 7} : FlipBoth(b, ord, mpos, mbit, ipos, ibit)

NextDamageBoth ==
    \/ NextDamage
    \/ FlipBothStep

SpecDamageBoth == Init /\ [][NextDamageBoth]_vars

(***************************************************************************)
(* C27  Reader checks are applied in a fixed order (byte count, then       *)
(* marker, then idx) and the first failing check decides the error: a      *)
(* frame that is short fails on the byte count whatever it holds, a full   *)
(* frame with a wrong marker yields MarkerNotFound also when its idx is    *)
(* wrong, and WrongIdx is returned exactly when the frame is full, the     *)
(* marker matches and the idx differs, carrying expected = the index       *)
(* entry's idx and actual = the idx decoded from the frame.                *)
(***************************************************************************)
FrameAtCursor(size) ==
    Take(Drop(fs[r.blk].data.bytes, r.dataPos), markerLen + idxLen + size)

C27_Step ==
    (last'.op = "Read" /\ r.indexUnread # <<>>
        /\ ParseIndex(r.indexUnread)[1] # BadEntry) =>
        LET e == ParseIndex(r.indexUnread)[1]
            frame == FrameAtCursor(e.size)
            short == Len(frame) < markerLen + idxLen + e.size
            badMarker == Take(frame, markerLen) # marker
            idx == Take(Drop(frame, markerLen), idxLen)
            badIdx == idx # U64(e.idx)
        IN  /\ short => last'.err \in {"EOF", "ErrReadNotExpectedSize"}
            /\ (~short /\ badMarker) => last'.err = "ErrReadMarkerNotFound"
            /\ (~short /\ ~badMarker /\ badIdx) => last'.err = "ErrReadWrongIdx"
            /\ last'.err = "ErrReadWrongIdx" =>
                  /\ ~short /\ ~badMarker /\ badIdx
                  /\ last'.expected = e.idx
                  /\ last'.actual = idx

C27_CheckOrder == [][C27_Step]_vars

\* the Read of a record whose marker and idx are both damaged
C27_Witness ==
    /\ last.op = "Read" /\ dmg.kind = "both" /\ last.blk = dmg.blk
    /\ last.ord = dmg.ord
    /\ last.err = "ErrReadMarkerNotFound"

(***************************************************************************)
(* C28  Bit-stream state invariant: in every state reachable from an       *)
(* empty stream by any sequence of WriteBit, WriteByte, WriteBytes,        *)
(* WriteBits and Reset, pos is in [0,8], pos = 0 holds exactly when the    *)
(* buffer is empty, the number of bits written since the last Reset equals *)
(* 8*(len-1)+pos when len > 0, and every bit of the last byte at a         *)
(* position >= pos is zero.                                                *)
(***************************************************************************)
C28_StreamState ==
    ol.fromEmpty =>
        /\ os.pos \in 0..8
        /\ os.pos = 0 <=> Len(os.rawBuffer) = 0
        /\ Len(os.rawBuffer) = 0 => ol.written = 0
        /\ Len(os.rawBuffer) > 0 =>
              /\ ol.written = 8 * (Len(os.rawBuffer) - 1) + os.pos
              /\ \A k \in 0..7 :
                    k >= os.pos => BitOf(os.rawBuffer[Len(os.rawBuffer)], k) = 0

\* thirteen bits written to a stream that is empty, ending inside a byte
C28_Witness ==
    /\ ol.fromEmpty /\ ol.ops = MaxStreamOps
    /\ ol.op = "WriteBits" /\ ol.n = 13 /\ ol.v = AllOnes64
    /\ ol.prev = [rawBuffer |-> <<>>, pos |-> 0]
    /\ os = [rawBuffer |-> <<255, 31>>, pos |-> 5]
    /\ ol.written = 13

(***************************************************************************)
(* C29  A decoded dictionary index that is >= the current dictionary       *)
(* length makes the bytes-field decode fail with a dictionary-out-of-range *)
(* error, and in that case the field's dictionary (contents and order) and *)
(* the field's value in the last message are left unchanged.               *)
(***************************************************************************)
errDictOutOfRange == "read bytes field dictionary index out of range"

\* the dictionary the record is decoded against: empty behind the header
DictAtDecode(i) == IF StreamAt(i) = 0 THEN <<>> ELSE Dict(i)

C29_Step ==
    (itl'.op = "Next" /\ hasNext(it) /\ itl'.rec.bytes.kind = "idx"
        /\ itl'.rec.bytes.idx >= Len(DictAtDecode(it))) =>
        /\ ~itl'.ret
        /\ Err(it') = errDictOutOfRange
        /\ Len(it'.customFields) = 1
        /\ Dict(it') = DictAtDecode(it)
        /\ it'.lastIterated[1] = it.lastIterated[1]

C29_DictOutOfRange == [][C29_Step]_vars

\* index 2 read against the dictionary [a, b], the last value being b
C29_Witness ==
    /\ itl.op = "Next" /\ ~itl.ret /\ itl.lruSize = 3
    /\ itl.rec.bytes = IdxBytes(2)
    /\ Err(it) = errDictOutOfRange
    /\ Dict(it) = <<A, B>>
    /\ it.lastIterated[1] = B

(***************************************************************************)
(* C30  Close is terminal and idempotent: after Close the iterator is in   *)
(* the closed state so that Next returns false, and a second Close is a    *)
(* no-op that does not reset the iterator again and does not return it to  *)
(* the pool a second time.                                                 *)
(***************************************************************************)
ClosedAfterClose == itl'.op = "Close" => isClosed(it')

NextAfterClose ==
    (itl.op = "Close" /\ itl'.op = "Next") => (~itl'.ret /\ ~it'.panic)

SecondClose == (itl.op = "Close" /\ itl'.op = "Close") => it' = it

C30_Step == ClosedAfterClose /\ NextAfterClose /\ SecondClose

C30_CloseTerminal == [][C30_Step]_vars

(***************************************************************************)
(* A cut of the index file of a finished block, and the specification of   *)
(* writer and reader that adds it.                                         *)
(***************************************************************************)
TruncateIndex(b, n) ==
    /\ dmg.kind = "none"
    /\ ~r.used
    /\ gh.clean[b]
    /\ n < Len(fs[b].index.bytes)
    /\ fs' = [fs EXCEPT ![b].index.bytes = Take(@, n)]
    /\ dmg' = [kind |-> "index", blk |-> b, ord |-> 0]
    /\ last' = [NoLast EXCEPT !.op = "TruncateIndex", !.blk = b]
    /\ UNCHANGED <<w, r, gh, os, ol, it, itl>>

TruncateIndexStep ==
    \E b \in Starts : \E n \in 0..(Len(fs[b].index.bytes) - 1) : TruncateIndex(b, n)

NextIndexCut ==
    \/ Next
    \/ TruncateIndexStep

SpecIndexCut == Init /\ [][NextIndexCut]_vars

(***************************************************************************)
(* C31  For any contents of the in-memory index buffer, Read returns       *)
(* either an entry or an error value: when the decoded varint entry length *)
(* exceeds the number of index bytes remaining (truncated index file),     *)
(* Read returns an error and never slices beyond the end of the buffer.    *)
(***************************************************************************)
C31_IndexBounds ==
    last.op = "Read" => (last.err # "panic" /\ ~last.beyond)

(***************************************************************************)
(* C32  For every LRU size L >= 0 advertised in the stream header,         *)
(* including L = 0, decoding a bytes value that is not in the dictionary   *)
(* completes without an out-of-range access to the dictionary and leaves   *)
(* the dictionary length <= L.                                             *)
(***************************************************************************)
C32_Step ==
    (itl'.op = "Next" /\ hasNext(it) /\ itl'.rec.bytes.kind = "new") =>
        /\ ~it'.panic
        /\ Len(it'.customFields) = 1
        /\ Len(Dict(it')) <= itl'.lruSize

C32_DictBounded == [][C32_Step]_vars

=============================================================================
